---- MODULE Spec2Model ----
(***************************************************************************)
(* Model of smart_gemini_agent.                                            *)
(*                                                                         *)
(* Part 1: utils/decorators.py, the two retry wrappers                     *)
(*   retry_on_failure(max_retries, delay)            (one awaited call)    *)
(*   retry_on_failure_async_gen(max_retries, delay)  (async generator)     *)
(* One run of the model is one call of a decorated function.  `variant`    *)
(* says which of the two wrappers runs.  The wrapped function `func` is    *)
(* the environment: at each attempt it returns, yields, ends or raises.    *)
(***************************************************************************)
EXTENDS Integers, Sequences, FiniteSets, TLC

----------------------------------------------------------------------------
(* Bounds of the model *)

\* largest max_retries a decorator is configured with (0..MaxRetries)
MaxRetries == 3
\* most elements one invocation of a wrapped generator produces
MaxItems == 2

\* configured base delays (seconds); the default is 1.0
Delays == {1, 2}

----------------------------------------------------------------------------
(* Exceptions and their text.                                              *)
(* str(e) is modelled as a sequence of tokens; whitespace between tokens   *)
(* is what \s* of the regular expression skips.  A number is a token of    *)
(* decimal digits.                                                         *)

\* tokens made of decimal digits only (what \d+ matches), with int() of each
DigitTokens == {"0", "5", "429"}

IntValue(tok) ==
    CASE tok = "0" -> 0
      [] tok = "5" -> 5
      [] tok = "429" -> 429

\* Python None where an exception object is expected
NoException == [type |-> "None", text |-> <<>>]

\* asyncio.CancelledError: a BaseException, not an Exception (Python >= 3.8)
CancelledError == [type |-> "CancelledError", text |-> <<>>]

Exc(text) == [type |-> "Exception", text |-> text]

\* the error texts the wrapped function fails with
ErrorTexts ==
    { <<"boom">>,
      <<"429", "retry_delay", "{", "seconds:", "5", "}">>,
      <<"ResourceExhausted", "retry_delay", "{", "seconds:", "0", "}">>,
      <<"retry_delay", "{", "seconds:", "5", "}">>,
      <<"ResourceExhausted", "retry_delay", "{", "seconds:", "soon", "}">> }

Failures == { Exc(t) : t \in ErrorTexts }

\* `sub in error_text` for the two markers: a token holds the marker
Contains(text, marker) == \E i \in DOMAIN text : text[i] = marker

\* line 29 taking a retry_delay hint for a rate-limit signature too
HasRateLimitSignature_OrHint(text) ==
    \/ Contains(text, "429")
    \/ Contains(text, "ResourceExhausted")
    \/ Contains(text, "retry_delay")

\* line 29: "429" in error_text or "ResourceExhausted" in error_text
HasRateLimitSignature(text) ==
    Contains(text, "429") \/ Contains(text, "ResourceExhausted")

\* the token positions where retry_delay\s*{\s*seconds:\s*(\d+) matches
DelayMatches(text) ==
    { i \in DOMAIN text :
        /\ i + 3 <= Len(text)
        /\ text[i] = "retry_delay"
        /\ text[i + 1] = "{"
        /\ text[i + 2] = "seconds:"
        /\ text[i + 3] \in DigitTokens }

\* lines 30-33: retry_secs, <<>> for None and <<n>> for the int n;
\* re.search takes the leftmost match
RetrySecs(text) ==
    IF DelayMatches(text) = {}
    THEN <<>>
    ELSE LET i == CHOOSE k \in DelayMatches(text) :
                      \A j \in DelayMatches(text) : k <= j
         IN  <<IntValue(text[i + 3])>>

\* Python truth value of retry_secs: None and 0 are false
Truthy(opt) == opt # <<>> /\ opt[1] # 0

\* line 35: wait_time = retry_secs if retry_secs else delay
WaitTime(text, d) ==
    IF Truthy(RetrySecs(text)) THEN RetrySecs(text)[1] ELSE d

\* a bare `except:` (or CancelledError as an Exception, as before Python 3.8)
IsException_CatchAll(x) == TRUE

\* line 25: `except Exception` catches instances of Exception only
IsException(x) == x.type = "Exception"

----------------------------------------------------------------------------
(***************************************************************************)
(* Part 2: core/intent_analyzer.py, class IntentAnalyzer.                  *)
(*                                                                         *)
(* A Python str is a sequence of characters, one token per character.      *)
(* A Latin lower-case letter, a digit or a sign stands for itself; a       *)
(* Cyrillic lower-case letter is written as its transliteration in capital *)
(* letters (A B V G D E ZH Z I J K L M N O P R S T U F H C CH SH SCH QQ Y  *)
(* Q EH YU YA); "^" before a letter makes it the upper-case letter.        *)
(***************************************************************************)

\* str.lower() of one character
LowerChar(c) ==
    CASE c = "^D" -> "D"
      [] c = "^U" -> "U"
      [] c = "^P" -> "P"
      [] OTHER -> c

\* characters \s matches (and str.strip() and str.split() take as blanks)
IsSpace(c) == c = " "

\* str.lower()
Lower(s) == [i \in DOMAIN s |-> LowerChar(s[i])]

\* str.strip()
Strip(s) ==
    LET inner == { i \in DOMAIN s : ~IsSpace(s[i]) }
    IN  IF inner = {}
        THEN <<>>
        ELSE LET first == CHOOSE i \in inner : \A j \in inner : i <= j
                 last == CHOOSE i \in inner : \A j \in inner : j <= i
             IN  SubSeq(s, first, last)

\* len(s.split()): the number of maximal runs of non-blank characters
WordCount(s) ==
    Cardinality({ i \in DOMAIN s :
                     ~IsSpace(s[i]) /\ (i = 1 \/ IsSpace(s[i - 1])) })

\* `sub in s` for two str
In(sub, s) ==
    \E i \in 1..(Len(s) - Len(sub) + 1) : SubSeq(s, i, i + Len(sub) - 1) = sub

\* any(word in s for word in words)
AnyIn(words, s) == \E k \in DOMAIN words : In(words[k], s)

\* a name or a constant of the program that is not taken apart: one token
Sym(name) == <<name>>

\* Python None, '' and True as dict values
None == Sym("None")
EmptyStr == <<>>
True == Sym("True")

\* {} and dict.get(key) / dict.get(key, default)
EmptyDict == <<>>
Get(d, key) == IF key \in DOMAIN d THEN d[key] ELSE None

----------------------------------------------------------------------------
(* The context memory: self.context_memory, a dict with up to four keys.   *)
(* Each field is <<>> when the key is absent and <<v>> when it holds v.    *)

\* line 17: self.context_memory = {}
EmptyContext ==
    [last_intent |-> <<>>, last_params |-> <<>>,
     last_suggestions |-> <<>>, last_response |-> <<>>]

\* context_memory.get('last_intent'): an intent name, or "None"
CtxIntent(ctx) ==
    IF ctx.last_intent = <<>> THEN "None" ELSE ctx.last_intent[1]

\* context_memory.get('last_params', {})
CtxParams(ctx) ==
    IF ctx.last_params = <<>> THEN EmptyDict ELSE ctx.last_params[1]

\* context_memory.get('last_suggestions', [])
CtxSuggestions(ctx) ==
    IF ctx.last_suggestions = <<>> THEN <<>> ELSE ctx.last_suggestions[1]

\* the argument values of update_context_memory the model draws from
RecordIntents == {"delete_file", "read_file", "general"}

RecordParams ==
    { EmptyDict,
      [target |-> None],
      [target |-> <<"a", ".", "t", "x", "t">>],
      [target |-> <<"b", ".", "t", "x", "t">>, content |-> <<"h", "i">>],
      [target |-> <<"r", ".", "x", "l", "s", "x">>] }

RecordResponses == {None, Sym("response")}

\* option lists a context can hold
SuggestionLists == {<<>>, <<"rename", "move", "clear">>}
----------------------------------------------------------------------------
(* IntentAnalyzer._is_context_reference and _handle_context_reference *)

\* lines 137 and 164: ['1', '2', '3', '4', '5']
NumericTokens == <<<<"1">>, <<"2">>, <<"3">>, <<"4">>, <<"5">>>>

IsNumericToken(u) == \E k \in DOMAIN NumericTokens : NumericTokens[k] = u

\* line 165: int(user_input) - 1
OptionNum(u) == (CHOOSE k \in DOMAIN NumericTokens : NumericTokens[k] = u) - 1

\* lines 141-145: pervyj, vtoroj, tretij, chetvertyj, pyatyj, "pervyj variant",
\* "vtoroj variant", "tretij variant", da, davaj, "sdelaj eto", vypolni
context_keywords ==
    << <<"P", "E", "R", "V", "Y", "J">>, <<"V", "T", "O", "R", "O", "J">>, <<"T", "R", "E", "T", "I", "J">>, <<"CH", "E", "T", "V", "E", "R", "T", "Y", "J">>, <<"P", "YA", "T", "Y", "J">>,
       <<"P", "E", "R", "V", "Y", "J", " ", "V", "A", "R", "I", "A", "N", "T">>, <<"V", "T", "O", "R", "O", "J", " ", "V", "A", "R", "I", "A", "N", "T">>, <<"T", "R", "E", "T", "I", "J", " ", "V", "A", "R", "I", "A", "N", "T">>,
       <<"D", "A">>, <<"D", "A", "V", "A", "J">>, <<"S", "D", "E", "L", "A", "J", " ", "EH", "T", "O">>, <<"V", "Y", "P", "O", "L", "N", "I">> >>

\* line 148: ['.', 'fajl']
FileMarkers == << <<".">>, <<"F", "A", "J", "L">> >>

\* line 152: ['pereimenuj']
RenameDirective == << <<"P", "E", "R", "E", "I", "M", "E", "N", "U", "J">> >>

\* line 190: ['pereimenuj', 'rename']
RenameWords == << <<"P", "E", "R", "E", "I", "M", "E", "N", "U", "J">>, <<"r", "e", "n", "a", "m", "e">> >>

\* line 199: ['da', 'davaj', 'sdelaj', 'vypolni']
AffirmationWords == << <<"D", "A">>, <<"D", "A", "V", "A", "J">>, <<"S", "D", "E", "L", "A", "J">>, <<"V", "Y", "P", "O", "L", "N", "I">> >>

\* the rename rule of lines 152-153 without the test of last_intent
IsContextReference_Ungated(u, ctx) ==
    IF IsNumericToken(u)
    THEN TRUE
    ELSE IF WordCount(u) <= 2 /\ ~AnyIn(FileMarkers, u)
    THEN AnyIn(context_keywords, u)
    ELSE WordCount(u) <= 2 /\ AnyIn(RenameDirective, u)

\* lines 134-155
IsContextReference(u, ctx) ==
    IF IsNumericToken(u)
    THEN TRUE
    ELSE IF WordCount(u) <= 2 /\ ~AnyIn(FileMarkers, u)
    THEN AnyIn(context_keywords, u)
    ELSE IF WordCount(u) <= 2 /\ AnyIn(RenameDirective, u)
    THEN CtxIntent(ctx) = "delete_file"
    ELSE FALSE

\* lines 171-175 and 192-196
RenameToBackup(target) ==
    [intent |-> "move_file",
     params |-> [target |-> target,
                 action |-> Sym("rename_to_backup"),
                 context_action |-> Sym("rename_for_deletion")]]

\* option 2 giving the same action as option 1
MoveToDeleteFolder_AsRename(target) == RenameToBackup(target)

\* lines 177-181
MoveToDeleteFolder(target) ==
    [intent |-> "move_file",
     params |-> [target |-> target,
                 action |-> Sym("move_to_delete_folder"),
                 context_action |-> Sym("move_for_deletion")]]

\* lines 183-187
ClearContent(target) ==
    [intent |-> "write_file",
     params |-> [target |-> target,
                 content |-> EmptyStr,
                 context_action |-> Sym("clear_content")]]

\* the final return without its marker
AmbiguousReference_NoMarker(u) == [intent |-> "general", params |-> EmptyDict]

\* line 203
AmbiguousReference(u) ==
    [intent |-> "general",
     params |-> [context_reference |-> True, original_input |-> u]]

\* Python truth value of last_intent (None is false) and of a dict or a list
IntentTruthy(i) == i # "None" /\ i # ""
NonEmpty(x) == x # <<>>

\* int(user_input) of line 165 evaluated before the test of line 164: it
\* raises ValueError for every reference that is not a number
HandleContextReference_IntFirst(u, ctx) ==
    IF ~IsNumericToken(u)
    THEN [intent |-> "raise", params |-> [exception |-> Sym("ValueError")]]
    ELSE IF /\ CtxIntent(ctx) = "delete_file"
            /\ NonEmpty(CtxSuggestions(ctx))
            /\ OptionNum(u) \in {0, 1, 2}
    THEN CASE OptionNum(u) = 0 -> RenameToBackup(Get(CtxParams(ctx), "target"))
           [] OptionNum(u) = 1 -> MoveToDeleteFolder(Get(CtxParams(ctx), "target"))
           [] OptionNum(u) = 2 -> ClearContent(Get(CtxParams(ctx), "target"))
    ELSE AmbiguousReference(u)

\* the numbered options offered whether or not suggestions are stored
HandleContextReference_AnySuggestions(u, ctx) ==
    LET last_intent == CtxIntent(ctx)
        last_params == CtxParams(ctx)
    IN  IF /\ IsNumericToken(u)
           /\ last_intent = "delete_file"
           /\ OptionNum(u) \in {0, 1, 2}
        THEN CASE OptionNum(u) = 0 -> RenameToBackup(Get(last_params, "target"))
               [] OptionNum(u) = 1 -> MoveToDeleteFolder(Get(last_params, "target"))
               [] OptionNum(u) = 2 -> ClearContent(Get(last_params, "target"))
        ELSE IF AnyIn(RenameWords, u) /\ last_intent = "delete_file"
        THEN RenameToBackup(Get(last_params, "target"))
        ELSE IF /\ AnyIn(AffirmationWords, u)
                /\ IntentTruthy(last_intent)
                /\ NonEmpty(last_params)
        THEN [intent |-> last_intent, params |-> last_params]
        ELSE AmbiguousReference(u)

\* lines 157-203
HandleContextReference(u, ctx) ==
    LET last_intent == CtxIntent(ctx)
        last_params == CtxParams(ctx)
        last_suggestions == CtxSuggestions(ctx)
    IN  IF /\ IsNumericToken(u)
           /\ last_intent = "delete_file"
           /\ NonEmpty(last_suggestions)
           /\ OptionNum(u) \in {0, 1, 2}
        THEN CASE OptionNum(u) = 0 -> RenameToBackup(Get(last_params, "target"))
               [] OptionNum(u) = 1 -> MoveToDeleteFolder(Get(last_params, "target"))
               [] OptionNum(u) = 2 -> ClearContent(Get(last_params, "target"))
        ELSE IF AnyIn(RenameWords, u) /\ last_intent = "delete_file"
        THEN RenameToBackup(Get(last_params, "target"))
        ELSE IF /\ AnyIn(AffirmationWords, u)
                /\ IntentTruthy(last_intent)
                /\ NonEmpty(last_params)
        THEN [intent |-> last_intent, params |-> last_params]
        ELSE AmbiguousReference(u)
----------------------------------------------------------------------------
(* Regular expressions, as far as the patterns of the program use them.    *)
(* Match gives the ends of the matches of r at position i in the order in  *)
(* which Python's backtracking matcher tries them (a greedy repetition the *)
(* longest first, an alternation from left to right), with the groups each *)
(* one captured; re.search takes the first match at the leftmost position. *)

Lit(s) == [t |-> "lit", s |-> s]
\* a character class repeated, greedily, at least min times
Rep(cls, min) == [t |-> "rep", cls |-> cls, min |-> min]
Alt(rs) == [t |-> "alt", rs |-> rs]
Cat(rs) == [t |-> "cat", rs |-> rs]
\* r? (greedy)
Opt(r) == [t |-> "opt", r |-> r]
\* the n-th capturing group
Grp(n, r) == [t |-> "grp", n |-> n, r |-> r]

\* characters of the model's alphabet that \w does not match
NonWordChars == {" ", ".", "-", "/", ",", "!", "?"}

\* "space": \s, "any": . , "nonspace": [^\s], "name": [\w\._-]
InClass(c, cls) ==
    CASE cls = "space" -> IsSpace(c)
      [] cls = "any" -> TRUE
      [] cls = "nonspace" -> ~IsSpace(c)
      [] cls = "name" -> c \notin NonWordChars \/ c \in {".", "_", "-"}

\* the number of characters from position i on that are in the class
Run(s, i, cls) ==
    LET stops == { j \in i..Len(s) : ~InClass(s[j], cls) }
    IN  IF stops = {}
        THEN Len(s) - i + 1
        ELSE (CHOOSE j \in stops : \A k \in stops : j <= k) - i

\* no group has taken part in the match: groups() is (None, None, None)
NoGroups == [n \in 1..3 |-> <<>>]

RECURSIVE Match(_, _, _, _)
RECURSIVE MatchAlt(_, _, _, _, _)
RECURSIVE MatchCat(_, _, _, _, _)
RECURSIVE MatchRest(_, _, _, _, _)

Match(r, s, i, caps) ==
    CASE r.t = "lit" ->
            IF /\ i + Len(r.s) - 1 <= Len(s)
               /\ SubSeq(s, i, i + Len(r.s) - 1) = r.s
            THEN <<[pos |-> i + Len(r.s), caps |-> caps]>>
            ELSE <<>>
      [] r.t = "rep" ->
            LET run == Run(s, i, r.cls)
            IN  IF run < r.min
                THEN <<>>
                ELSE [j \in 1..(run - r.min + 1) |->
                         [pos |-> i + run - (j - 1), caps |-> caps]]
      [] r.t = "alt" -> MatchAlt(r.rs, 1, s, i, caps)
      [] r.t = "cat" -> MatchCat(r.rs, 1, s, i, caps)
      [] r.t = "opt" -> Match(r.r, s, i, caps) \o <<[pos |-> i, caps |-> caps]>>
      [] r.t = "grp" ->
            LET ms == Match(r.r, s, i, caps)
            IN  [j \in DOMAIN ms |->
                    [pos |-> ms[j].pos,
                     caps |-> [ms[j].caps EXCEPT ![r.n] = <<i, ms[j].pos>>]]]

\* the alternatives from the k-th on
MatchAlt(rs, k, s, i, caps) ==
    IF k > Len(rs)
    THEN <<>>
    ELSE Match(rs[k], s, i, caps) \o MatchAlt(rs, k + 1, s, i, caps)

\* the parts from the k-th on, one after the other
MatchCat(rs, k, s, i, caps) ==
    IF k > Len(rs)
    THEN <<[pos |-> i, caps |-> caps]>>
    ELSE MatchRest(Match(rs[k], s, i, caps), 1, rs, k + 1, s)

\* the parts from the k-th on after each of the matches ms[j], ms[j+1], ...
MatchRest(ms, j, rs, k, s) ==
    IF j > Len(ms)
    THEN <<>>
    ELSE MatchCat(rs, k, s, ms[j].pos, ms[j].caps)
            \o MatchRest(ms, j + 1, rs, k, s)

\* re.search(r, s): <<>> for None, else <<m>> with m.caps[n] = <<>> when
\* group n is None and <<from, to>> when it is s[from..to-1]
Search(r, s) ==
    LET starts == { i \in 1..(Len(s) + 1) : Match(r, s, i, NoGroups) # <<>> }
    IN  IF starts = {}
        THEN <<>>
        ELSE LET i == CHOOSE a \in starts : \A b \in starts : a <= b
             IN  <<Match(r, s, i, NoGroups)[1]>>

\* match.group(n) of a group that is not None
Group(m, s, n) == SubSeq(s, m.caps[n][1], m.caps[n][2] - 1)
----------------------------------------------------------------------------
(* IntentAnalyzer.intent_patterns and the classifier of analyze_intent *)

Spaces1 == Rep("space", 1)
Spaces0 == Rep("space", 0)
Words(ws) == Alt([k \in DOMAIN ws |-> Lit(ws[k])])
Pattern(intent, ng, parts) == [intent |-> intent, ng |-> ng, re |-> Cat(parts)]

\* lines 20-54, in the order of the dict
intent_patterns ==
    << \* line 22
       Pattern("refactor_file", 2,
          << Grp(1, Words(<< <<"I", "S", "P", "R", "A", "V", "Q">>, <<"P", "O", "P", "R", "A", "V", "Q">>, <<"O", "T", "F", "O", "R", "M", "A", "T", "I", "R", "U", "J">>, <<"U", "L", "U", "CH", "SH", "I">>,
                             <<"f", "i", "x">>, <<"f", "o", "r", "m", "a", "t">>, <<"r", "e", "f", "a", "c", "t", "o", "r">> >>)),
             Spaces1, Rep("any", 0),
             Alt(<< Cat(<< Lit(<<"V">>), Spaces1, Lit(<<"F", "A", "J", "L", "E">>) >>),
                    Cat(<< Lit(<<"i", "n">>), Spaces1, Lit(<<"f", "i", "l", "e">>) >>) >>),
             Spaces1, Grp(2, Rep("name", 1)) >>),
       \* line 25
       Pattern("create_file", 1,
          << Words(<< <<"S", "O", "Z", "D", "A", "J">>, <<"S", "O", "Z", "D", "A", "T", "Q">>, <<"S", "D", "E", "L", "A", "J">>, <<"N", "O", "V", "Y", "J">> >>), Spaces1,
             Opt(Cat(<< Lit(<<"e", "x", "c", "e", "l">>), Spaces1 >>)), Lit(<<"F", "A", "J", "L">>), Spaces1,
             Grp(1, Rep("nonspace", 1)) >>),
       \* line 26
       Pattern("create_file", 1,
          << Words(<< <<"S", "O", "Z", "D", "A", "J">>, <<"S", "O", "Z", "D", "A", "T", "Q">> >>), Spaces1,
             Grp(1, Cat(<< Rep("nonspace", 0), Lit(<<".", "x", "l", "s">>), Opt(Lit(<<"x">>)) >>)) >>),
       \* line 27
       Pattern("create_file", 1,
          << Words(<< <<"c", "r", "e", "a", "t", "e">>, <<"m", "a", "k", "e">> >>), Spaces1,
             Opt(Cat(<< Lit(<<"e", "x", "c", "e", "l">>), Spaces1 >>)), Lit(<<"f", "i", "l", "e">>), Spaces1,
             Grp(1, Rep("nonspace", 1)) >>),
       \* line 30
       Pattern("create_directory", 1,
          << Words(<< <<"S", "O", "Z", "D", "A", "J">>, <<"S", "O", "Z", "D", "A", "T", "Q">> >>), Spaces1,
             Words(<< <<"P", "A", "P", "K", "U">>, <<"D", "I", "R", "E", "K", "T", "O", "R", "I", "YU">> >>), Spaces1,
             Grp(1, Rep("nonspace", 1)) >>),
       \* line 31
       Pattern("create_directory", 1,
          << Lit(<<"N", "O", "V", "A", "YA">>), Spaces1, Lit(<<"P", "A", "P", "K", "A">>), Spaces1,
             Grp(1, Rep("nonspace", 1)) >>),
       \* line 32
       Pattern("create_directory", 1,
          << Alt(<< Cat(<< Lit(<<"c", "r", "e", "a", "t", "e">>), Spaces1, Lit(<<"f", "o", "l", "d", "e", "r">>) >>),
                    Cat(<< Lit(<<"m", "a", "k", "e">>), Spaces1, Lit(<<"d", "i", "r", "e", "c", "t", "o", "r", "y">>) >>),
                    Lit(<<"m", "k", "d", "i", "r">>) >>),
             Spaces1, Grp(1, Rep("nonspace", 1)) >>),
       \* line 35
       Pattern("list_directory", 0, << Lit(<<"P", "O", "K", "A", "ZH", "I">>), Spaces1, Lit(<<"F", "A", "J", "L", "Y">>) >>),
       \* line 36
       Pattern("list_directory", 0, << Lit(<<"S", "P", "I", "S", "O", "K">>), Spaces1, Lit(<<"F", "A", "J", "L", "O", "V">>) >>),
       \* line 37
       Pattern("list_directory", 0,
          << Lit(<<"CH", "T", "O">>), Spaces1, Lit(<<"V">>), Spaces1, Lit(<<"P", "A", "P", "K", "E">>) >>),
       \* line 38
       Pattern("list_directory", 1,
          << Lit(<<"S", "O", "D", "E", "R", "ZH", "I", "M", "O", "E">>), Spaces1, Lit(<<"P", "A", "P", "K", "I">>), Spaces0,
             Grp(1, Rep("nonspace", 0)) >>),
       \* line 39
       Pattern("list_directory", 1,
          << Words(<< <<"l", "s">>, <<"d", "i", "r">> >>), Spaces0, Grp(1, Rep("nonspace", 0)) >>),
       \* line 40
       Pattern("list_directory", 0, << Lit(<<"l", "i", "s", "t">>), Spaces1, Lit(<<"f", "i", "l", "e", "s">>) >>),
       \* line 43
       Pattern("read_file", 1,
          << Words(<< <<"P", "O", "K", "A", "ZH", "I">>, <<"CH", "I", "T", "A", "J">>, <<"P", "R", "O", "CH", "I", "T", "A", "J">>, <<"O", "T", "K", "R", "O", "J">>,
                      <<"r", "e", "a", "d">>, <<"s", "h", "o", "w">>, <<"c", "a", "t">> >>), Spaces1,
             Opt(Words(<< <<"F", "A", "J", "L">>, <<"S", "O", "D", "E", "R", "ZH", "I", "M", "O", "E">> >>)), Spaces0,
             Grp(1, Rep("nonspace", 1)) >>),
       \* line 46
       Pattern("delete_file", 1,
          << Words(<< <<"U", "D", "A", "L", "I">>, <<"U", "D", "A", "L", "I", "T", "Q">>, <<"U", "B", "E", "R", "I">>, <<"d", "e", "l", "e", "t", "e">>, <<"r", "e", "m", "o", "v", "e">>, <<"r", "m">> >>),
             Spaces1, Opt(Lit(<<"F", "A", "J", "L">>)), Spaces0, Grp(1, Rep("any", 1)) >>),
       \* line 49
       Pattern("search", 1,
          << Words(<< <<"N", "A", "J", "D", "I">>, <<"P", "O", "I", "S", "K">>, <<"I", "SCH", "I">>, <<"s", "e", "a", "r", "c", "h">>, <<"f", "i", "n", "d">> >>),
             Spaces1, Grp(1, Rep("any", 1)) >>),
       \* line 52
       Pattern("web_search", 1,
          << Alt(<< Cat(<< Lit(<<"N", "A", "J", "D", "I">>), Spaces1, Lit(<<"V">>), Spaces1, Lit(<<"I", "N", "T", "E", "R", "N", "E", "T", "E">>) >>),
                    Cat(<< Lit(<<"P", "O", "I", "S", "K">>), Spaces1, Lit(<<"V">>), Spaces1, Lit(<<"S", "E", "T", "I">>) >>),
                    Lit(<<"G", "U", "G", "L", "I">>),
                    Cat(<< Lit(<<"w", "e", "b">>), Spaces1, Lit(<<"s", "e", "a", "r", "c", "h">>) >>),
                    Lit(<<"g", "o", "o", "g", "l", "e">>) >>),
             Spaces1, Grp(1, Rep("any", 1)) >>) >>

\* line 80: the last group that is not None; <<>> when there is none
LastGroup(m, s, ng) ==
    LET set == { n \in 1..ng : m.caps[n] # <<>> }
    IN  IF set = {}
        THEN <<>>
        ELSE <<Group(m, s, CHOOSE n \in set : \A k \in set : k <= n)>>

\* re.sub(r'^(w1|w2|...)\s+', '', t)
StripLeadingWord(ws, t) ==
    LET m == Match(Cat(<<Words(ws), Spaces1>>), t, 1, NoGroups)
    IN  IF m = <<>> THEN t ELSE SubSeq(t, m[1].pos, Len(t))

\* lines 77-90: the value of params['target']
Target(m, s, ng) ==
    LET g == LastGroup(m, s, ng)
    IN  IF g = <<>>
        THEN None
        ELSE IF g[1] = EmptyStr
        THEN EmptyStr
        ELSE StripLeadingWord(<< <<"P", "A", "P", "K", "U">>, <<"P", "A", "P", "K", "A">>, <<"f", "o", "l", "d", "e", "r">>, <<"d", "i", "r", "e", "c", "t", "o", "r", "y">> >>,
                StripLeadingWord(<< <<"F", "A", "J", "L">>, <<"F", "A", "J", "L", "A">>, <<"f", "i", "l", "e">> >>, Strip(g[1])))

\* line 95: s soderzhimym\s+(.+)|s tekstom\s+(.+)|with content\s+(.+)
ContentPattern ==
    Alt(<< Cat(<< Lit(<<"S", " ", "S", "O", "D", "E", "R", "ZH", "I", "M", "Y", "M">>), Spaces1, Grp(1, Rep("any", 1)) >>),
           Cat(<< Lit(<<"S", " ", "T", "E", "K", "S", "T", "O", "M">>), Spaces1, Grp(2, Rep("any", 1)) >>),
           Cat(<< Lit(<<"w", "i", "t", "h", " ", "c", "o", "n", "t", "e", "n", "t">>), Spaces1, Grp(3, Rep("any", 1)) >>) >>)

\* lines 90-101: params of a match of the k-th pattern
PatternParams(k, m, u) ==
    LET base == [target |-> Target(m, u, intent_patterns[k].ng)]
        cm == Search(ContentPattern, u)
    IN  IF intent_patterns[k].intent = "create_file" /\ cm # <<>>
        THEN [target |-> base.target,
              content |-> Group(cm[1], u,
                            CHOOSE n \in 1..3 : cm[1].caps[n] # <<>>)]
        ELSE base

\* lines 117-123
keyword_patterns ==
    << [primary |-> << <<"F", "A", "J", "L">>, <<"f", "i", "l", "e">> >>,
        secondary |-> << <<"S", "O", "Z", "D", "A", "J">>, <<"c", "r", "e", "a", "t", "e">>, <<"N", "O", "V", "Y", "J">> >>,
        intent |-> "create_file"],
       [primary |-> << <<"P", "A", "P", "K", "A">>, <<"f", "o", "l", "d", "e", "r">>, <<"D", "I", "R", "E", "K", "T", "O", "R", "I", "YA">>, <<"d", "i", "r", "e", "c", "t", "o", "r", "y">> >>,
        secondary |-> << <<"S", "O", "Z", "D", "A", "J">>, <<"c", "r", "e", "a", "t", "e">>, <<"N", "O", "V", "A", "YA">> >>,
        intent |-> "create_directory"],
       [primary |-> << <<"CH", "I", "T", "A", "J">>, <<"r", "e", "a", "d">>, <<"P", "O", "K", "A", "ZH", "I">>, <<"s", "h", "o", "w">>, <<"O", "T", "K", "R", "O", "J">> >>,
        secondary |-> <<>>,
        intent |-> "read_file"],
       [primary |-> << <<"U", "D", "A", "L", "I">>, <<"d", "e", "l", "e", "t", "e">>, <<"U", "B", "E", "R", "I">>, <<"r", "e", "m", "o", "v", "e">> >>,
        secondary |-> <<>>,
        intent |-> "delete_file"],
       [primary |-> << <<"S", "P", "I", "S", "O", "K">>, <<"F", "A", "J", "L", "Y">>, <<"S", "O", "D", "E", "R", "ZH", "I", "M", "O", "E">>, <<"l", "s">>, <<"d", "i", "r">> >>,
        secondary |-> <<>>,
        intent |-> "list_directory"] >>

\* lines 126-129
KeywordMatch(kp, u) ==
    /\ AnyIn(kp.primary, u)
    /\ (kp.secondary = <<>> \/ AnyIn(kp.secondary, u))

\* the keyword loop taking the last triple that matches, not the first
AnalyzeFallbackKeywords_Last(u) ==
    LET hits == { k \in DOMAIN keyword_patterns : KeywordMatch(keyword_patterns[k], u) }
    IN  IF hits = {}
        THEN <<>>
        ELSE LET k == CHOOSE a \in hits : \A b \in hits : b <= a
             IN  <<[intent |-> keyword_patterns[k].intent,
                    params |-> [target |-> None]]>>

\* lines 115-132: <<>> for None
AnalyzeFallbackKeywords(u) ==
    LET hits == { k \in DOMAIN keyword_patterns : KeywordMatch(keyword_patterns[k], u) }
    IN  IF hits = {}
        THEN <<>>
        ELSE LET k == CHOOSE a \in hits : \A b \in hits : a <= b
             IN  <<[intent |-> keyword_patterns[k].intent,
                    params |-> [target |-> None]]>>

\* the pattern loop taking the last pattern that matches, not the first
Classify_LastMatch(u) ==
    LET hits == { k \in DOMAIN intent_patterns : Search(intent_patterns[k].re, u) # <<>> }
    IN  IF hits # {}
        THEN LET k == CHOOSE a \in hits : \A b \in hits : b <= a
             IN  [intent |-> intent_patterns[k].intent,
                  params |-> PatternParams(k, Search(intent_patterns[k].re, u)[1], u),
                  consulted |-> <<"context", "patterns">>]
        ELSE LET fb == AnalyzeFallbackKeywords(u)
             IN  IF fb # <<>>
                 THEN [intent |-> fb[1].intent, params |-> fb[1].params,
                       consulted |-> <<"context", "patterns", "fallback">>]
                 ELSE [intent |-> "general", params |-> EmptyDict,
                       consulted |-> <<"context", "patterns", "fallback">>]

\* lines 72-113: the result when the utterance is no context reference
Classify(u) ==
    LET hits == { k \in DOMAIN intent_patterns : Search(intent_patterns[k].re, u) # <<>> }
    IN  IF hits # {}
        THEN LET k == CHOOSE a \in hits : \A b \in hits : a <= b
             IN  [intent |-> intent_patterns[k].intent,
                  params |-> PatternParams(k, Search(intent_patterns[k].re, u)[1], u),
                  consulted |-> <<"context", "patterns">>]
        ELSE LET fb == AnalyzeFallbackKeywords(u)
             IN  IF fb # <<>>
                 THEN [intent |-> fb[1].intent, params |-> fb[1].params,
                       consulted |-> <<"context", "patterns", "fallback">>]
                 ELSE [intent |-> "general", params |-> EmptyDict,
                       consulted |-> <<"context", "patterns", "fallback">>]

\* line 66: user_input.lower().strip()
Normalize(raw) == Strip(Lower(raw))

\* the user inputs the model draws from:
\* "1".."5", "da", " Da ", "davaj", "sdelaj eto", "vypolni", "pervyj",
\* "pereimenuj", "pereimenuj a.txt", "udali", "nu pozhalujsta udali",
\* "udali temp", "prochitaj fajl notes.txt", "privet", "", "  ",
\* "isprav opechatku v fajle a.txt", "fix read me in file a.txt",
\* "najdi v internete python", "gugli python", "read file a.txt",
\* "show,remove", "file remove"
Utterances ==
    { <<"1">>, <<"2">>, <<"3">>, <<"4">>, <<"5">>,
      <<"D", "A">>, <<" ", "^D", "A", " ">>, <<"D", "A", "V", "A", "J">>, <<"S", "D", "E", "L", "A", "J", " ", "EH", "T", "O">>, <<"V", "Y", "P", "O", "L", "N", "I">>,
      <<"P", "E", "R", "V", "Y", "J">>,
      <<"P", "E", "R", "E", "I", "M", "E", "N", "U", "J">>, <<"P", "E", "R", "E", "I", "M", "E", "N", "U", "J", " ", "a", ".", "t", "x", "t">>,
      <<"U", "D", "A", "L", "I">>, <<"N", "U", " ", "P", "O", "ZH", "A", "L", "U", "J", "S", "T", "A", " ", "U", "D", "A", "L", "I">>, <<"U", "D", "A", "L", "I", " ", "t", "e", "m", "p">>,
      <<"P", "R", "O", "CH", "I", "T", "A", "J", " ", "F", "A", "J", "L", " ", "n", "o", "t", "e", "s", ".", "t", "x", "t">>,
      <<"P", "R", "I", "V", "E", "T">>, <<>>, <<" ", " ">>,
      <<"I", "S", "P", "R", "A", "V", "Q", " ", "O", "P", "E", "CH", "A", "T", "K", "U", " ", "V", " ", "F", "A", "J", "L", "E", " ", "a", ".", "t", "x", "t">>,
      <<"f", "i", "x", " ", "r", "e", "a", "d", " ", "m", "e", " ", "i", "n", " ", "f", "i", "l", "e", " ", "a", ".", "t", "x", "t">>,
      <<"N", "A", "J", "D", "I", " ", "V", " ", "I", "N", "T", "E", "R", "N", "E", "T", "E", " ", "p", "y", "t", "h", "o", "n">>,
      <<"G", "U", "G", "L", "I", " ", "p", "y", "t", "h", "o", "n">>,
      <<"r", "e", "a", "d", " ", "f", "i", "l", "e", " ", "a", ".", "t", "x", "t">>,
      <<"s", "h", "o", "w", ",", "r", "e", "m", "o", "v", "e">>,
      <<"f", "i", "l", "e", " ", "r", "e", "m", "o", "v", "e">>,
      <<"P", "R", "O", "CH", "I", "T", "A", "J", " ", "F", "A", "J", "L", " ", "U", "D", "A", "L", "I">>,
      <<"S", "O", "Z", "D", "A", "J", " ", "F", "A", "J", "L", " ", "r", ".", "x", "l", "s", "x">> }

\* lines 73-113 applied to each normalized input of Utterances, computed once
Classified == [u \in { Normalize(raw) : raw \in Utterances } |-> Classify(u)]

\* analyze_intent without the lower().strip() of line 66
AnalyzeIntent_Raw(raw, ctx) ==
    IF IsContextReference(raw, ctx)
    THEN LET r == HandleContextReference(raw, ctx)
         IN  [intent |-> r.intent, params |-> r.params,
              consulted |-> <<"context">>]
    ELSE Classify(raw)

\* analyze_intent trying the patterns and keywords before the context
AnalyzeIntent_ClassifierFirst(raw, ctx) ==
    LET u == Normalize(raw)
        c == Classified[u]
    IN  IF c.intent # "general"
        THEN [c EXCEPT !.consulted = Tail(c.consulted)]
        ELSE IF IsContextReference(u, ctx)
        THEN LET r == HandleContextReference(u, ctx)
             IN  [intent |-> r.intent, params |-> r.params,
                  consulted |-> Tail(c.consulted) \o <<"context">>]
        ELSE c

\* lines 56-113: analyze_intent(user_input) with the context memory ctx
AnalyzeIntent(raw, ctx) ==
    LET u == Normalize(raw)
    IN  IF IsContextReference(u, ctx)
        THEN LET r == HandleContextReference(u, ctx)
             IN  [intent |-> r.intent, params |-> r.params,
                  consulted |-> <<"context">>]
        ELSE Classified[u]

\* the dict analyze_intent returns is the object stored under last_params:
\* the context branch of lines 66-70 was taken and _handle_context_reference
\* left through `return last_intent, last_params` (lines 198-201); every
\* other return builds a new dict
ReturnsStoredParams(u, ctx) ==
    LET last_intent == CtxIntent(ctx)
        last_params == CtxParams(ctx)
        last_suggestions == CtxSuggestions(ctx)
    IN  /\ IsContextReference(u, ctx)
        /\ ~( /\ IsNumericToken(u)
              /\ last_intent = "delete_file"
              /\ NonEmpty(last_suggestions)
              /\ OptionNum(u) \in {0, 1, 2} )
        /\ ~(AnyIn(RenameWords, u) /\ last_intent = "delete_file")
        /\ AnyIn(AffirmationWords, u)
        /\ IntentTruthy(last_intent)
        /\ NonEmpty(last_params)

----------------------------------------------------------------------------
(* State *)

VARIABLES
    variant,         \* "call": retry_on_failure, "gen": retry_on_failure_async_gen
    max_retries,     \* decorator argument
    delay,           \* decorator argument
    pc,              \* where the wrapper is
    attempt,         \* loop variable of `for attempt in range(max_retries)`
    last_exception,  \* local of the wrapper
    e,               \* exception bound by `except Exception as e`
    calls,           \* number of times func(*args, **kwargs) was invoked
    gen_pos,         \* elements the current generator object has produced
    errors,          \* the exceptions func raised, one per failed attempt
    sleeps,          \* arguments of the asyncio.sleep calls, in order
    out,             \* elements the streaming wrapper yielded to its consumer
    result,          \* value the wrapper returned
    propagated,      \* exceptions that left the wrapper
    cancelled        \* the caller cancelled the task

retryVars == <<variant, max_retries, delay, pc, attempt, last_exception, e,
               calls, gen_pos, errors, sleeps, out, result, propagated,
               cancelled>>

VARIABLES
    context_memory,  \* self.context_memory of an IntentAnalyzer
    op,              \* the last method called on it, with its arguments
    intent_result,   \* what the last analyze_intent returned
    returned,        \* <<>>, or the dict get_context_memory gave its caller
    params_aliased   \* the params of intent_result are the stored last_params object

intentVars ==
    <<context_memory, op, intent_result, returned, params_aliased>>

VARIABLES
    initialized,     \* FileSystemAgent._initialized
    agent,           \* FileSystemAgent.agent: 0 for None, else the number of
                     \* the create_react_agent call that made it
    tools,           \* len(FileSystemAgent.tools)
    init_pc,         \* where initialize is: "idle" (no call) or "mcp"
    init_result,     \* how the last initialize ended
    init_failed,     \* the step of the last initialize that raised an
                     \* Exception, "none" when no step did
    init_calls,      \* initialize calls so far
    discoveries,     \* mcp_client.get_tools calls so far
    agents_created,  \* create_react_agent calls so far
    body             \* where the body of process_message is

agentVars ==
    <<initialized, agent, tools, init_pc, init_result, init_failed,
      init_calls, discoveries, agents_created, body>>

vars == <<retryVars, intentVars, agentVars>>

\* a method call record with no arguments
NoCall(name) ==
    [name |-> name, intent |-> "", params |-> EmptyDict, response |-> None,
     input |-> <<>>]

NoResult == [intent |-> "", params |-> EmptyDict, consulted |-> <<>>]

\* values func returns
Values == {"ok"}

\* the k-th element produced by the n-th invocation of the wrapped generator
Item(n, k) == [inv |-> n, idx |-> k]

InitRetry ==
    /\ variant \in {"call", "gen"}
    /\ max_retries \in 0..MaxRetries
    /\ delay \in Delays
    /\ pc = "for"
    /\ attempt = 0
    /\ last_exception = NoException
    /\ e = NoException
    /\ calls = 0
    /\ gen_pos = 0
    /\ errors = <<>>
    /\ sleeps = <<>>
    /\ out = <<>>
    /\ result = "unset"
    /\ propagated = <<>>
    /\ cancelled = FALSE
    /\ context_memory = EmptyContext
    /\ op = NoCall("init")
    /\ intent_result = NoResult
    /\ returned = <<>>
    /\ params_aliased = FALSE
    /\ initialized = FALSE
    /\ agent = 0
    /\ tools = 0
    /\ init_pc = "idle"
    /\ init_result = "unset"
    /\ init_failed = "none"
    /\ init_calls = 0
    /\ discoveries = 0
    /\ agents_created = 0
    /\ body = "start"

----------------------------------------------------------------------------
(* Steps shared by the two wrappers' try statements *)

\* an exception x leaves the wrapper
Propagate(x) ==
    /\ pc' = "raised"
    /\ propagated' = Append(propagated, x)

\* x is raised inside the try body (lines 23-25, 58-62): the except clause
\* takes it when it is an Exception, otherwise it leaves the wrapper
RaisedInTry(x) ==
    IF IsException(x)
    THEN /\ pc' = "except"
         /\ e' = x
         /\ UNCHANGED propagated
    ELSE /\ Propagate(x)
         /\ UNCHANGED e

\* ExceptBody keeping the first captured error instead of the latest
ExceptBody_KeepFirst ==
    /\ last_exception' = IF last_exception = NoException THEN e ELSE last_exception
    /\ IF HasRateLimitSignature(e.text)
       THEN /\ sleeps' = Append(sleeps, WaitTime(e.text, delay))
            /\ pc' = "sleep"
            /\ UNCHANGED propagated
       ELSE IF attempt < max_retries - 1
       THEN /\ sleeps' = Append(sleeps, delay)
            /\ pc' = "sleep"
            /\ UNCHANGED propagated
       ELSE /\ Propagate(e)
            /\ UNCHANGED sleeps

\* ExceptBody failing fast on the last attempt whatever the error is
ExceptBody_NoFinalSleep ==
    /\ last_exception' = e
    /\ IF attempt < max_retries - 1
       THEN /\ sleeps' = Append(sleeps, IF HasRateLimitSignature(e.text)
                                        THEN WaitTime(e.text, delay)
                                        ELSE delay)
            /\ pc' = "sleep"
            /\ UNCHANGED propagated
       ELSE /\ Propagate(e)
            /\ UNCHANGED sleeps

\* ExceptBody sleeping after every failure, the last one included
ExceptBody_AlwaysSleep ==
    /\ last_exception' = e
    /\ sleeps' = Append(sleeps, IF HasRateLimitSignature(e.text)
                                THEN WaitTime(e.text, delay)
                                ELSE delay)
    /\ pc' = "sleep"
    /\ UNCHANGED propagated

\* lines 26-42 (and 63-79): the body of the except clause
ExceptBody ==
    /\ last_exception' = e
    /\ IF HasRateLimitSignature(e.text)
       THEN /\ sleeps' = Append(sleeps, WaitTime(e.text, delay))
            /\ pc' = "sleep"
            /\ UNCHANGED propagated
       ELSE IF attempt < max_retries - 1
       THEN /\ sleeps' = Append(sleeps, delay)
            /\ pc' = "sleep"
            /\ UNCHANGED propagated
       ELSE /\ Propagate(e)
            /\ UNCHANGED sleeps

\* lines 43-44 (and 80-81): after the loop
TailBody ==
    IF last_exception # NoException
    THEN /\ Propagate(last_exception)
         /\ UNCHANGED result
    ELSE /\ pc' = "returned"
         /\ result' = "None"
         /\ UNCHANGED propagated

----------------------------------------------------------------------------
(* retry_on_failure.wrapper *)

\* line 22: next iteration of the loop, line 24: func is called
CallFor ==
    /\ variant = "call"
    /\ pc = "for"
    /\ IF attempt < max_retries
       THEN /\ pc' = "try"
            /\ calls' = calls + 1
       ELSE /\ pc' = "tail"
            /\ UNCHANGED calls
    /\ UNCHANGED <<variant, max_retries, delay, attempt, last_exception, e,
                   gen_pos, errors, sleeps, out, result, propagated, cancelled>>
    /\ UNCHANGED <<intentVars, agentVars>>

\* line 24: the awaited call returns v, and so does the wrapper
CallReturn ==
    /\ variant = "call"
    /\ pc = "try"
    /\ \E v \in Values : result' = v
    /\ pc' = "returned"
    /\ UNCHANGED <<variant, max_retries, delay, attempt, last_exception, e,
                   calls, gen_pos, errors, sleeps, out, propagated, cancelled>>
    /\ UNCHANGED <<intentVars, agentVars>>

\* line 24: the awaited call raises
CallRaise ==
    /\ variant = "call"
    /\ pc = "try"
    /\ \E x \in Failures :
          /\ errors' = Append(errors, x)
          /\ RaisedInTry(x)
    /\ UNCHANGED <<variant, max_retries, delay, attempt, last_exception,
                   calls, gen_pos, sleeps, out, result, cancelled>>
    /\ UNCHANGED <<intentVars, agentVars>>

\* lines 25-42
CallExcept ==
    /\ variant = "call"
    /\ pc = "except"
    /\ ExceptBody
    /\ UNCHANGED <<variant, max_retries, delay, attempt, e, calls, gen_pos,
                   errors, out, result, cancelled>>
    /\ UNCHANGED <<intentVars, agentVars>>

\* CallSleepDone going round the loop without counting the attempt
CallSleepDone_SameAttempt ==
    /\ variant = "call"
    /\ pc = "sleep"
    /\ pc' = "for"
    /\ UNCHANGED <<variant, max_retries, delay, attempt, last_exception, e,
                   calls, gen_pos, errors, sleeps, out, result, propagated,
                   cancelled>>
    /\ UNCHANGED <<intentVars, agentVars>>

\* lines 37 and 40: asyncio.sleep returns, the loop goes on
CallSleepDone ==
    /\ variant = "call"
    /\ pc = "sleep"
    /\ pc' = "for"
    /\ attempt' = attempt + 1
    /\ UNCHANGED <<variant, max_retries, delay, last_exception, e, calls,
                   gen_pos, errors, sleeps, out, result, propagated, cancelled>>
    /\ UNCHANGED <<intentVars, agentVars>>

\* lines 43-44
CallTail ==
    /\ variant = "call"
    /\ pc = "tail"
    /\ TailBody
    /\ UNCHANGED <<variant, max_retries, delay, attempt, last_exception, e,
                   calls, gen_pos, errors, sleeps, out, cancelled>>
    /\ UNCHANGED <<intentVars, agentVars>>

----------------------------------------------------------------------------
(* retry_on_failure_async_gen.wrapper *)

\* GenFor going on with the generator object of the failed attempt
GenFor_Resume ==
    /\ variant = "gen"
    /\ pc = "for"
    /\ IF attempt < max_retries
       THEN /\ pc' = "iter"
            /\ calls' = IF calls = 0 THEN 1 ELSE calls
            /\ UNCHANGED gen_pos
       ELSE /\ pc' = "tail"
            /\ UNCHANGED <<calls, gen_pos>>
    /\ UNCHANGED <<variant, max_retries, delay, attempt, last_exception, e,
                   errors, sleeps, out, result, propagated, cancelled>>
    /\ UNCHANGED <<intentVars, agentVars>>

\* line 57: next iteration, line 59: func(*args, **kwargs) makes a new
\* generator object, which has produced nothing yet
GenFor ==
    /\ variant = "gen"
    /\ pc = "for"
    /\ IF attempt < max_retries
       THEN /\ pc' = "iter"
            /\ calls' = calls + 1
            /\ gen_pos' = 0
       ELSE /\ pc' = "tail"
            /\ UNCHANGED <<calls, gen_pos>>
    /\ UNCHANGED <<variant, max_retries, delay, attempt, last_exception, e,
                   errors, sleeps, out, result, propagated, cancelled>>
    /\ UNCHANGED <<intentVars, agentVars>>

\* GenYield handing the element to the consumer twice
GenYield_Twice ==
    /\ variant = "gen"
    /\ pc = "iter"
    /\ gen_pos < MaxItems
    /\ gen_pos' = gen_pos + 1
    /\ out' = out \o <<Item(calls, gen_pos + 1), Item(calls, gen_pos + 1)>>
    /\ UNCHANGED <<variant, max_retries, delay, pc, attempt, last_exception, e,
                   calls, errors, sleeps, result, propagated, cancelled>>
    /\ UNCHANGED <<intentVars, agentVars>>

\* lines 59-60: the generator produces its next element, the wrapper yields it
GenYield ==
    /\ variant = "gen"
    /\ pc = "iter"
    /\ gen_pos < MaxItems
    /\ gen_pos' = gen_pos + 1
    /\ out' = Append(out, Item(calls, gen_pos + 1))
    /\ UNCHANGED <<variant, max_retries, delay, pc, attempt, last_exception, e,
                   calls, errors, sleeps, result, propagated, cancelled>>
    /\ UNCHANGED <<intentVars, agentVars>>

\* GenEnd without the `return` of line 61: the loop goes on
GenEnd_NoReturn ==
    /\ variant = "gen"
    /\ pc = "iter"
    /\ pc' = "for"
    /\ attempt' = attempt + 1
    /\ UNCHANGED <<variant, max_retries, delay, last_exception, e,
                   calls, gen_pos, errors, sleeps, out, result, propagated,
                   cancelled>>
    /\ UNCHANGED <<intentVars, agentVars>>

\* lines 59 and 61: the generator is exhausted, the wrapper returns
GenEnd ==
    /\ variant = "gen"
    /\ pc = "iter"
    /\ pc' = "returned"
    /\ UNCHANGED <<variant, max_retries, delay, attempt, last_exception, e,
                   calls, gen_pos, errors, sleeps, out, result, propagated,
                   cancelled>>
    /\ UNCHANGED <<intentVars, agentVars>>

\* line 59: the generator raises
GenRaise ==
    /\ variant = "gen"
    /\ pc = "iter"
    /\ \E x \in Failures :
          /\ errors' = Append(errors, x)
          /\ RaisedInTry(x)
    /\ UNCHANGED <<variant, max_retries, delay, attempt, last_exception,
                   calls, gen_pos, sleeps, out, result, cancelled>>
    /\ UNCHANGED <<intentVars, agentVars>>

\* lines 62-79
GenExcept ==
    /\ variant = "gen"
    /\ pc = "except"
    /\ ExceptBody
    /\ UNCHANGED <<variant, max_retries, delay, attempt, e, calls, gen_pos,
                   errors, out, result, cancelled>>
    /\ UNCHANGED <<intentVars, agentVars>>

\* lines 74 and 77: asyncio.sleep returns, the loop goes on
GenSleepDone ==
    /\ variant = "gen"
    /\ pc = "sleep"
    /\ pc' = "for"
    /\ attempt' = attempt + 1
    /\ UNCHANGED <<variant, max_retries, delay, last_exception, e, calls,
                   gen_pos, errors, sleeps, out, result, propagated, cancelled>>
    /\ UNCHANGED <<intentVars, agentVars>>

\* lines 80-81
GenTail ==
    /\ variant = "gen"
    /\ pc = "tail"
    /\ TailBody
    /\ UNCHANGED <<variant, max_retries, delay, attempt, last_exception, e,
                   calls, gen_pos, errors, sleeps, out, cancelled>>
    /\ UNCHANGED <<intentVars, agentVars>>

----------------------------------------------------------------------------
(* The caller cancels the task while the wrapper is suspended: CancelledError *)
(* is raised at the await the wrapper is at.  The sleeps are inside the       *)
(* except clause, where nothing catches.                                      *)

Cancel ==
    /\ pc \in {"try", "iter", "sleep"}
    /\ cancelled' = TRUE
    /\ IF pc = "sleep"
       THEN /\ Propagate(CancelledError)
            /\ UNCHANGED e
       ELSE RaisedInTry(CancelledError)
    /\ UNCHANGED <<variant, max_retries, delay, attempt, last_exception,
                   calls, gen_pos, errors, sleeps, out, result>>
    /\ UNCHANGED <<intentVars, agentVars>>

NextRetry ==
    \/ CallFor
    \/ CallReturn
    \/ CallRaise
    \/ CallExcept
    \/ CallSleepDone
    \/ CallTail
    \/ GenFor
    \/ GenYield
    \/ GenEnd
    \/ GenRaise
    \/ GenExcept
    \/ GenSleepDone
    \/ GenTail
    \/ Cancel

----------------------------------------------------------------------------
(* One IntentAnalyzer object and the calls of its methods *)

\* lines 15-17: __init__; no retry wrapper runs
InitIntent ==
    /\ context_memory = EmptyContext
    /\ op = NoCall("init")
    /\ intent_result = NoResult
    /\ returned = <<>>
    /\ params_aliased = FALSE
    /\ initialized = FALSE
    /\ agent = 0
    /\ tools = 0
    /\ init_pc = "idle"
    /\ init_result = "unset"
    /\ init_failed = "none"
    /\ init_calls = 0
    /\ discoveries = 0
    /\ agents_created = 0
    /\ body = "start"
    /\ variant = "call"
    /\ max_retries = 0
    /\ delay = 1
    /\ pc = "for"
    /\ attempt = 0
    /\ last_exception = NoException
    /\ e = NoException
    /\ calls = 0
    /\ gen_pos = 0
    /\ errors = <<>>
    /\ sleeps = <<>>
    /\ out = <<>>
    /\ result = "unset"
    /\ propagated = <<>>
    /\ cancelled = FALSE

\* update_context_memory storing the options it offers with the turn
UpdatedContext_WithSuggestions(ctx, intent, params, response) ==
    [ctx EXCEPT !.last_intent = <<intent>>,
                !.last_params = <<params>>,
                !.last_suggestions = << <<"rename", "move", "clear">> >>,
                !.last_response = <<response>>]

\* a context memory that keeps the earlier turns beside the new one
UpdatedContext_Append(ctx, intent, params, response) ==
    [ctx EXCEPT !.last_intent = @ \o <<intent>>,
                !.last_params = @ \o <<params>>,
                !.last_response = @ \o <<response>>]

\* lines 207-211: self.context_memory.update({...})
UpdatedContext(ctx, intent, params, response) ==
    [ctx EXCEPT !.last_intent = <<intent>>,
                !.last_params = <<params>>,
                !.last_response = <<response>>]

\* the caller's dict after the engine put another object under last_params
\* (line 209) or emptied its own dict (line 222): nothing is shared any more
Detached(r) == IF r = <<>> THEN r ELSE <<[r[1] EXCEPT !.shares_params = FALSE]>>

\* lines 205-214: update_context_memory(intent, params, response)
UpdateContextMemory ==
    /\ \E i \in RecordIntents, p \in RecordParams, r \in RecordResponses :
          /\ context_memory' = UpdatedContext(context_memory, i, p, r)
          /\ op' = [name |-> "update", intent |-> i, params |-> p,
                    response |-> r, input |-> <<>>]
    /\ intent_result' = NoResult
    /\ returned' = Detached(returned)
    /\ params_aliased' = FALSE
    /\ UNCHANGED <<retryVars, agentVars>>

\* line 222: self.context_memory.clear()
ClearedContext(ctx) == EmptyContext

\* lines 220-224: clear_context_memory()
ClearContextMemory ==
    /\ context_memory' = ClearedContext(context_memory)
    /\ op' = NoCall("clear")
    /\ intent_result' = NoResult
    /\ returned' = Detached(returned)
    /\ params_aliased' = FALSE
    /\ UNCHANGED <<retryVars, agentVars>>

\* analyze_intent recording its own result as the last turn
AnalyzeIntentCall_Records ==
    /\ \E raw \in Utterances :
          LET r == AnalyzeIntent(raw, context_memory)
          IN  /\ intent_result' = r
              /\ op' = [NoCall("analyze") EXCEPT !.input = raw]
              /\ context_memory' =
                    UpdatedContext(context_memory, r.intent, r.params, None)
    /\ params_aliased' = TRUE
    /\ UNCHANGED returned
    /\ UNCHANGED <<retryVars, agentVars>>

\* lines 56-113: analyze_intent(user_input)
AnalyzeIntentCall ==
    /\ \E raw \in Utterances :
          /\ intent_result' = AnalyzeIntent(raw, context_memory)
          /\ params_aliased' =
                ReturnsStoredParams(Normalize(raw), context_memory)
          /\ op' = [NoCall("analyze") EXCEPT !.input = raw]
    /\ UNCHANGED context_memory
    /\ UNCHANGED returned
    /\ UNCHANGED <<retryVars, agentVars>>

NextIntent ==
    \/ UpdateContextMemory
    \/ ClearContextMemory
    \/ AnalyzeIntentCall

\* the methods of one IntentAnalyzer, called in any order
SpecIntent == InitIntent /\ [][NextIntent]_vars

\* lines 216-218: get_context_memory() returns self.context_memory.copy(),
\* a new dict whose values are the objects the engine's dict holds
GetContextMemory ==
    /\ returned' = <<[shares_params |-> context_memory.last_params # <<>>]>>
    /\ op' = NoCall("get")
    /\ intent_result' = NoResult
    /\ params_aliased' = FALSE
    /\ UNCHANGED context_memory
    /\ UNCHANGED <<retryVars, agentVars>>

\* the caller removes a key of the returned dict (del d[key]) or adds one
\* (d['note'] = ...): the dict is the caller's own
CallerSetsField ==
    /\ returned # <<>>
    /\ \E key \in {"last_intent", "last_params", "note"} :
          returned' = IF key = "last_params" THEN Detached(returned)
                                             ELSE returned
    /\ op' = NoCall("caller_set")
    /\ intent_result' = NoResult
    /\ params_aliased' = FALSE
    /\ UNCHANGED context_memory
    /\ UNCHANGED <<retryVars, agentVars>>

\* d['last_params']['target'] = t
WithTarget(p, t) ==
    IF "content" \in DOMAIN p
    THEN [target |-> t, content |-> p.content]
    ELSE [target |-> t]

\* the target a caller writes: "z.txt"
CallerTarget == <<"z", ".", "t", "x", "t">>

\* the caller changes an entry inside the returned last_params,
\* d['last_params']['target'] = 'z.txt'; the dict it writes is the one the
\* engine holds as long as shares_params
CallerEditsParams ==
    /\ returned # <<>>
    /\ returned[1].shares_params
    /\ context_memory' =
          [context_memory EXCEPT
              !.last_params = <<WithTarget(@[1], CallerTarget)>>]
    /\ op' = NoCall("caller_edit")
    /\ intent_result' = NoResult
    /\ params_aliased' = FALSE
    /\ UNCHANGED returned
    /\ UNCHANGED <<retryVars, agentVars>>

NextCopy ==
    \/ UpdateContextMemory
    \/ ClearContextMemory
    \/ AnalyzeIntentCall
    \/ GetContextMemory
    \/ CallerSetsField
    \/ CallerEditsParams

\* the methods of one IntentAnalyzer and a caller that keeps what
\* get_context_memory returned
SpecCopy == InitIntent /\ [][NextCopy]_vars

\* str.endswith
EndsWith(s, suffix) ==
    /\ Len(s) >= Len(suffix)
    /\ SubSeq(s, Len(s) - Len(suffix) + 1, Len(s)) = suffix

\* a string that is a file name with an Excel extension
\* (agent.py:233-238: target_file and target_file.endswith(('.xlsx', '.xls')))
IsExcelTarget(t) ==
    /\ t # None
    /\ t # <<>>
    /\ \/ EndsWith(t, <<".", "x", "l", "s", "x">>)
       \/ EndsWith(t, <<".", "x", "l", "s">>)

\* os.path.isabs
IsAbs(t) == t # <<>> /\ t[1] = "/"

\* config.filesystem_path: "/w"
filesystem_path == <<"/", "w">>

\* os.path.join(self.config.filesystem_path, target_file), target_file
\* relative
AbsolutePath(t) == filesystem_path \o <<"/">> \o t

\* agent.py:243-253, reached from process_message through
\* _create_enhanced_context and _handle_special_file_types with the params
\* analyze_intent returned: when an Excel tool is loaded and the target is
\* relative, params['target'] = absolute_path.  The write goes into the dict
\* the caller was given, which is the stored last_params when params_aliased
HandleExcelFiles ==
    /\ op.name = "analyze"
    /\ IsExcelTarget(Get(intent_result.params, "target"))
    /\ ~IsAbs(intent_result.params.target)
    /\ intent_result' =
          [intent_result EXCEPT !.params.target = AbsolutePath(@)]
    /\ context_memory' =
          IF params_aliased
          THEN [context_memory EXCEPT
                   !.last_params = <<[@[1] EXCEPT !.target = AbsolutePath(@)]>>]
          ELSE context_memory
    /\ op' = NoCall("excel")
    /\ UNCHANGED params_aliased
    /\ UNCHANGED returned
    /\ UNCHANGED <<retryVars, agentVars>>

NextReplay ==
    \/ UpdateContextMemory
    \/ ClearContextMemory
    \/ AnalyzeIntentCall
    \/ HandleExcelFiles

\* the methods of one IntentAnalyzer and a caller that rewrites the target
\* of the params it was given, as process_message does for Excel files
SpecReplay == InitIntent /\ [][NextReplay]_vars

\* every context memory a dict of the four keys can be
Contexts ==
    [last_intent : {<<>>} \cup { <<i>> : i \in RecordIntents },
     last_params : {<<>>} \cup { <<p>> : p \in RecordParams },
     last_suggestions : {<<>>} \cup { <<l>> : l \in SuggestionLists },
     last_response : {<<>>} \cup { <<r>> : r \in RecordResponses }]

\* an analyzer whose context memory is any of Contexts; no retry wrapper runs
InitContext ==
    /\ context_memory \in Contexts
    /\ op = NoCall("init")
    /\ intent_result = NoResult
    /\ returned = <<>>
    /\ params_aliased = FALSE
    /\ initialized = FALSE
    /\ agent = 0
    /\ tools = 0
    /\ init_pc = "idle"
    /\ init_result = "unset"
    /\ init_failed = "none"
    /\ init_calls = 0
    /\ discoveries = 0
    /\ agents_created = 0
    /\ body = "start"
    /\ variant = "call"
    /\ max_retries = 0
    /\ delay = 1
    /\ pc = "for"
    /\ attempt = 0
    /\ last_exception = NoException
    /\ e = NoException
    /\ calls = 0
    /\ gen_pos = 0
    /\ errors = <<>>
    /\ sleeps = <<>>
    /\ out = <<>>
    /\ result = "unset"
    /\ propagated = <<>>
    /\ cancelled = FALSE

\* the methods called on an analyzer that starts with any context memory
SpecContext == InitContext /\ [][NextIntent]_vars

\* the retry wrappers; no IntentAnalyzer method is called
SpecRetry == InitRetry /\ [][NextRetry]_vars

\* the steps of the wrappers themselves: all of NextRetry but Cancel
WrapperStep ==
    \/ CallFor
    \/ CallReturn
    \/ CallRaise
    \/ CallExcept
    \/ CallSleepDone
    \/ CallTail
    \/ GenFor
    \/ GenYield
    \/ GenEnd
    \/ GenRaise
    \/ GenExcept
    \/ GenSleepDone
    \/ GenTail

\* the retry wrappers when every awaited call, every step of the wrapped
\* generator and every asyncio.sleep comes to an end, so that a wrapper that
\* can go on does go on; the caller may cancel or not
SpecRetryLive == InitRetry /\ [][NextRetry]_vars /\ WF_vars(WrapperStep)

----------------------------------------------------------------------------
(* core/agent.py: FileSystemAgent.initialize, with _init_mcp_client under   *)
(* retry_on_failure().  The calls of initialize come one after the other.   *)

\* initialize calls made on one agent
MaxCalls == 3

\* decorators.py:14 and 49: max_retries: int = 2
DefaultMaxRetries == 2

\* decorators.py:14 and 49: delay: float = 1.0
DefaultDelay == 1

\* line 115: raise Exception("Net dostupnyh MCP instrumentov")
NoToolsError == Exc(<<"^N", "E", "T", "MCP">>)

\* what _init_mcp_client can raise: mcp_client.get_tools() fails, or it
\* returns no tool
McpFailures == Failures \cup {NoToolsError}

\* lines 35-49: a new FileSystemAgent; no wrapper has been called
InitAgent ==
    /\ initialized = FALSE
    /\ agent = 0
    /\ tools = 0
    /\ init_pc = "idle"
    /\ init_result = "unset"
    /\ init_failed = "none"
    /\ init_calls = 0
    /\ discoveries = 0
    /\ agents_created = 0
    /\ body = "start"
    /\ context_memory = EmptyContext
    /\ op = NoCall("init")
    /\ intent_result = NoResult
    /\ returned = <<>>
    /\ params_aliased = FALSE
    /\ variant = "call"
    /\ max_retries = DefaultMaxRetries
    /\ delay = DefaultDelay
    /\ pc = "idle"
    /\ attempt = 0
    /\ last_exception = NoException
    /\ e = NoException
    /\ calls = 0
    /\ gen_pos = 0
    /\ errors = <<>>
    /\ sleeps = <<>>
    /\ out = <<>>
    /\ result = "unset"
    /\ propagated = <<>>
    /\ cancelled = FALSE

\* the wrapper of a function decorated with the default arguments is
\* called: line 21 (56), last_exception = None, and the loop is entered
WrapperCalled(v) ==
    /\ variant' = v
    /\ max_retries' = DefaultMaxRetries
    /\ delay' = DefaultDelay
    /\ pc' = "for"
    /\ attempt' = 0
    /\ last_exception' = NoException
    /\ e' = NoException
    /\ calls' = 0
    /\ gen_pos' = 0
    /\ errors' = <<>>
    /\ sleeps' = <<>>
    /\ out' = <<>>
    /\ result' = "unset"
    /\ propagated' = <<>>
    /\ cancelled' = FALSE

\* initialize without the test of lines 58-60
Initialize_NoGuard ==
    /\ init_pc = "idle"
    /\ init_calls < MaxCalls
    /\ init_calls' = init_calls + 1
    /\ \/ /\ init_result' = "False"
          /\ init_failed' = "validate"
          /\ UNCHANGED <<init_pc, retryVars>>
       \/ /\ init_pc' = "mcp"
          /\ init_result' = "unset"
          /\ init_failed' = "none"
          /\ WrapperCalled("call")
    /\ UNCHANGED <<initialized, agent, tools, discoveries, agents_created,
                   body>>
    /\ UNCHANGED intentVars

\* lines 56-67: initialize() is called.  An initialized agent returns True
\* (58-60); otherwise config.validate() raises, which the except clause of
\* lines 94-96 turns into False, or it returns and _init_mcp_client is
\* called through its wrapper
Initialize ==
    /\ init_pc = "idle"
    /\ init_calls < MaxCalls
    /\ init_calls' = init_calls + 1
    /\ IF initialized
       THEN /\ init_result' = "True"
            /\ init_failed' = "none"
            /\ UNCHANGED <<init_pc, retryVars>>
       ELSE \/ /\ init_result' = "False"
               /\ init_failed' = "validate"
               /\ UNCHANGED <<init_pc, retryVars>>
            \/ /\ init_pc' = "mcp"
               /\ init_result' = "unset"
               /\ init_failed' = "none"
               /\ WrapperCalled("call")
    /\ UNCHANGED <<initialized, agent, tools, discoveries, agents_created,
                   body>>
    /\ UNCHANGED intentVars

\* lines 98-125 without a failure: get_tools gives n tools (n >= 1),
\* _add_local_tools adds two; the function returns None and so does its
\* wrapper (decorators.py:24)
InitMcpClientReturns ==
    /\ init_pc = "mcp"
    /\ variant = "call"
    /\ pc = "try"
    /\ \E n \in 1..MaxItems : tools' = n + 2
    /\ discoveries' = discoveries + 1
    /\ result' = "None"
    /\ pc' = "returned"
    /\ UNCHANGED <<variant, max_retries, delay, attempt, last_exception, e,
                   calls, gen_pos, errors, sleeps, out, propagated, cancelled>>
    /\ UNCHANGED <<initialized, agent, init_pc, init_result, init_failed,
                   init_calls, agents_created, body>>
    /\ UNCHANGED intentVars

\* lines 106-115: get_tools raises, self.tools keeping its value, or it
\* returns [], which is stored before line 115 raises
InitMcpClientRaises ==
    /\ init_pc = "mcp"
    /\ variant = "call"
    /\ pc = "try"
    /\ discoveries' = discoveries + 1
    /\ \E x \in McpFailures :
          /\ tools' = IF x = NoToolsError THEN 0 ELSE tools
          /\ errors' = Append(errors, x)
          /\ RaisedInTry(x)
    /\ UNCHANGED <<variant, max_retries, delay, attempt, last_exception,
                   calls, gen_pos, sleeps, out, result, cancelled>>
    /\ UNCHANGED <<initialized, agent, init_pc, init_result, init_failed,
                   init_calls, agents_created, body>>
    /\ UNCHANGED intentVars

\* lines 69-96 after _init_mcp_client returned: the creation of the model,
\* of the checkpointer, of the prompt or of the agent raises, and lines
\* 94-96 return False; or self.agent is assigned, then _initialized, and
\* True is returned
InitializeCreatesAgent ==
    /\ init_pc = "mcp"
    /\ pc = "returned"
    /\ init_pc' = "idle"
    /\ \/ /\ init_result' = "False"
          /\ init_failed' = "create"
          /\ UNCHANGED <<initialized, agent, agents_created>>
       \/ /\ agents_created' = agents_created + 1
          /\ agent' = agents_created + 1
          /\ initialized' = TRUE
          /\ init_result' = "True"
          /\ init_failed' = "none"
    /\ UNCHANGED <<tools, init_calls, discoveries, body>>
    /\ UNCHANGED <<retryVars, intentVars>>

\* lines 94-96: the wrapper of _init_mcp_client raised.  An Exception is
\* caught and initialize returns False; CancelledError is no Exception and
\* leaves initialize
InitializeFails ==
    /\ init_pc = "mcp"
    /\ pc = "raised"
    /\ init_pc' = "idle"
    /\ IF IsException(propagated[Len(propagated)])
       THEN /\ init_result' = "False"
            /\ init_failed' = "mcp"
       ELSE /\ init_result' = "raised"
            /\ init_failed' = "none"
    /\ UNCHANGED <<initialized, agent, tools, init_calls, discoveries,
                   agents_created, body>>
    /\ UNCHANGED <<retryVars, intentVars>>

NextInit ==
    \/ Initialize
    \/ CallFor
    \/ InitMcpClientReturns
    \/ InitMcpClientRaises
    \/ CallExcept
    \/ CallSleepDone
    \/ CallTail
    \/ Cancel
    \/ InitializeCreatesAgent
    \/ InitializeFails

\* initialize called again and again on one agent, each call running to
\* its end before the next
SpecInit == InitAgent /\ [][NextInit]_vars

----------------------------------------------------------------------------
(* core/agent.py: FileSystemAgent.process_message under                     *)
(* retry_on_failure_async_gen().  The wrapper's except clause, its sleeps   *)
(* and the code after its loop are no steps of this part: C33 shows that    *)
(* the wrapper never gets there.                                            *)

\* google.api_core.exceptions.ResourceExhausted, a subclass of Exception
ResourceExhausted(text) ==
    [type |-> "Exception", cls |-> "ResourceExhausted", text |-> text]

\* line 173: `except ResourceExhausted` goes by the class, not by the text
IsResourceExhausted(x) == "cls" \in DOMAIN x /\ x.cls = "ResourceExhausted"

\* what analyze_intent, _create_enhanced_context and agent.astream raise
\* when they fail
StreamFailures == Failures \cup { ResourceExhausted(t) : t \in ErrorTexts }

\* a chunk of agent.astream, the k-th element of the n-th invocation
StreamChunk(n, k) == [inv |-> n, idx |-> k, error |-> <<>>]

\* {"error": msg}
ErrorChunk(n, k, msg) == [inv |-> n, idx |-> k, error |-> <<msg>>]

IsErrorChunk(c) == c.error # <<>>

\* line 144: the text for an agent that is not ready
NotReadyError == [kind |-> "not_ready", text |-> <<>>, wait |-> <<>>]

\* line 161: the text for a target that is a command word
InvalidTargetError == [kind |-> "invalid_target", text |-> <<>>, wait |-> <<>>]

\* lines 174-186: friendly_error, with the seconds of the hint when they
\* were extracted and are not 0 (`if retry_secs`)
FriendlyError(x) ==
    [kind |-> "rate_limit", text |-> <<>>,
     wait |-> IF Truthy(RetrySecs(x.text)) THEN RetrySecs(x.text) ELSE <<>>]

\* lines 190-191: final_error_msg, the prefix and str(e)
FinalErrorMsg(x) == [kind |-> "processing", text |-> x.text, wait |-> <<>>]

\* line 153
file_intents ==
    {"read_file", "write_file", "delete_file", "refactor_file", "move_file"}

\* line 158: ispravq, popravq, uluchshi, sozdaj, udali, prochitaj, pokazhi
invalid_keywords ==
    { <<"I", "S", "P", "R", "A", "V", "Q">>,
      <<"P", "O", "P", "R", "A", "V", "Q">>,
      <<"U", "L", "U", "CH", "SH", "I">>,
      <<"S", "O", "Z", "D", "A", "J">>,
      <<"U", "D", "A", "L", "I">>,
      <<"P", "R", "O", "CH", "I", "T", "A", "J">>,
      <<"P", "O", "K", "A", "ZH", "I">> }

\* lines 154-159: a file intent whose target is one of the command words
InvalidTarget(r) ==
    /\ r.intent \in file_intents
    /\ Get(r.params, "target") # None
    /\ Get(r.params, "target") # <<>>
    /\ Get(r.params, "target") \in invalid_keywords

\* the params after _create_enhanced_context (lines 198-203, 231-253): with
\* an Excel tool loaded, a relative Excel target is made absolute in place
EnhancedParams(p, excel_tools) ==
    IF /\ excel_tools
       /\ IsExcelTarget(Get(p, "target"))
       /\ ~IsAbs(p.target)
    THEN [p EXCEPT !.target = AbsolutePath(@)]
    ELSE p

\* a FileSystemAgent as it is after __init__, or after one initialize that
\* succeeded at once with one MCP tool; process_message has not been called
InitProcess ==
    /\ initialized \in BOOLEAN
    /\ agent = IF initialized THEN 1 ELSE 0
    /\ tools = IF initialized THEN 3 ELSE 0
    /\ init_pc = "idle"
    /\ init_result = IF initialized THEN "True" ELSE "unset"
    /\ init_failed = "none"
    /\ init_calls = IF initialized THEN 1 ELSE 0
    /\ discoveries = IF initialized THEN 1 ELSE 0
    /\ agents_created = IF initialized THEN 1 ELSE 0
    /\ body = "start"
    /\ context_memory = EmptyContext
    /\ op = NoCall("init")
    /\ intent_result = NoResult
    /\ returned = <<>>
    /\ params_aliased = FALSE
    /\ variant = "gen"
    /\ max_retries = DefaultMaxRetries
    /\ delay = DefaultDelay
    /\ pc = "idle"
    /\ attempt = 0
    /\ last_exception = NoException
    /\ e = NoException
    /\ calls = 0
    /\ gen_pos = 0
    /\ errors = <<>>
    /\ sleeps = <<>>
    /\ out = <<>>
    /\ result = "unset"
    /\ propagated = <<>>
    /\ cancelled = FALSE

\* agent.process_message(user_input) is called and iterated: the wrapper
\* starts (decorators.py:55-57)
ProcessMessageCall ==
    /\ pc = "idle"
    /\ init_pc = "idle"
    /\ WrapperCalled("gen")
    /\ body' = "start"
    /\ UNCHANGED <<initialized, agent, tools, init_pc, init_result,
                   init_failed, init_calls, discoveries, agents_created>>
    /\ UNCHANGED intentVars

\* lines 143-145: the agent is not ready; one error chunk, then return
ProcessNotReady ==
    /\ variant = "gen"
    /\ pc = "iter"
    /\ body = "start"
    /\ ~(initialized /\ agent # 0)
    /\ out' = Append(out, ErrorChunk(calls, gen_pos + 1, NotReadyError))
    /\ gen_pos' = gen_pos + 1
    /\ body' = "end"
    /\ UNCHANGED <<variant, max_retries, delay, pc, attempt, last_exception, e,
                   calls, errors, sleeps, result, propagated, cancelled>>
    /\ UNCHANGED <<initialized, agent, tools, init_pc, init_result,
                   init_failed, init_calls, discoveries, agents_created>>
    /\ UNCHANGED intentVars

\* lines 147-168: analyze_intent returns; a file intent with a command word
\* for target gives one error chunk and return (159-162), anything else
\* goes on to the enhanced context and to agent.astream
ProcessAnalyze ==
    /\ variant = "gen"
    /\ pc = "iter"
    /\ body = "start"
    /\ initialized /\ agent # 0
    /\ \E raw \in Utterances, excel_tools \in BOOLEAN :
          LET r == AnalyzeIntent(raw, context_memory)
              aliased == ReturnsStoredParams(Normalize(raw), context_memory)
          IN  /\ op' = [NoCall("analyze") EXCEPT !.input = raw]
              /\ params_aliased' = aliased
              /\ IF InvalidTarget(r)
                 THEN /\ intent_result' = r
                      /\ out' = Append(out, ErrorChunk(calls, gen_pos + 1,
                                                       InvalidTargetError))
                      /\ gen_pos' = gen_pos + 1
                      /\ body' = "end"
                      /\ UNCHANGED context_memory
                 ELSE /\ intent_result' =
                            [r EXCEPT !.params = EnhancedParams(@, excel_tools)]
                      /\ context_memory' =
                            IF aliased
                            THEN [context_memory EXCEPT !.last_params =
                                     <<EnhancedParams(@[1], excel_tools)>>]
                            ELSE context_memory
                      /\ body' = "stream"
                      /\ UNCHANGED <<out, gen_pos>>
    /\ UNCHANGED <<variant, max_retries, delay, pc, attempt, last_exception, e,
                   calls, errors, sleeps, result, propagated, cancelled>>
    /\ UNCHANGED <<initialized, agent, tools, init_pc, init_result,
                   init_failed, init_calls, discoveries, agents_created>>
    /\ UNCHANGED returned

\* lines 170-171: astream produces a chunk, process_message yields it and so
\* does the wrapper (decorators.py:59-60)
ProcessChunk ==
    /\ variant = "gen"
    /\ pc = "iter"
    /\ body = "stream"
    /\ gen_pos < MaxItems
    /\ gen_pos' = gen_pos + 1
    /\ out' = Append(out, StreamChunk(calls, gen_pos + 1))
    /\ UNCHANGED <<variant, max_retries, delay, pc, attempt, last_exception, e,
                   calls, errors, sleeps, result, propagated, cancelled>>
    /\ UNCHANGED <<intentVars, agentVars>>

\* process_message without its except clauses: the failure leaves the
\* generator and arrives in the wrapper's try statement
ProcessFails_Propagates ==
    /\ variant = "gen"
    /\ pc = "iter"
    /\ \/ body = "stream"
       \/ body = "start" /\ initialized /\ agent # 0
    /\ \E x \in StreamFailures :
          /\ errors' = Append(errors, x)
          /\ RaisedInTry(x)
    /\ body' = "start"
    /\ UNCHANGED <<variant, max_retries, delay, attempt, last_exception,
                   calls, gen_pos, sleeps, out, result, cancelled>>
    /\ UNCHANGED <<initialized, agent, tools, init_pc, init_result,
                   init_failed, init_calls, discoveries, agents_created>>
    /\ UNCHANGED intentVars

\* lines 147-193: analyze_intent, _create_enhanced_context or the stream
\* raises an Exception inside the try; the clause of lines 173-187
\* (ResourceExhausted) or of lines 189-195 (any other Exception) yields one
\* error chunk, and the body is at its end
ProcessFails ==
    /\ variant = "gen"
    /\ pc = "iter"
    /\ \/ body = "stream"
       \/ body = "start" /\ initialized /\ agent # 0
    /\ \E x \in StreamFailures :
          /\ errors' = Append(errors, x)
          /\ out' = Append(out,
                ErrorChunk(calls, gen_pos + 1,
                           IF IsResourceExhausted(x) THEN FriendlyError(x)
                                                     ELSE FinalErrorMsg(x)))
    /\ gen_pos' = gen_pos + 1
    /\ body' = "end"
    /\ UNCHANGED <<variant, max_retries, delay, pc, attempt, last_exception, e,
                   calls, sleeps, result, propagated, cancelled>>
    /\ UNCHANGED <<initialized, agent, tools, init_pc, init_result,
                   init_failed, init_calls, discoveries, agents_created>>
    /\ UNCHANGED intentVars

\* the stream is exhausted (line 170) or the body returned after an error
\* chunk: the generator ends and the wrapper returns (decorators.py:61)
ProcessEnd ==
    /\ variant = "gen"
    /\ pc = "iter"
    /\ body \in {"stream", "end"}
    /\ pc' = "returned"
    /\ body' = "start"
    /\ UNCHANGED <<variant, max_retries, delay, attempt, last_exception, e,
                   calls, gen_pos, errors, sleeps, out, result, propagated,
                   cancelled>>
    /\ UNCHANGED <<initialized, agent, tools, init_pc, init_result,
                   init_failed, init_calls, discoveries, agents_created>>
    /\ UNCHANGED intentVars

NextProcess ==
    \/ ProcessMessageCall
    \/ GenFor
    \/ ProcessNotReady
    \/ ProcessAnalyze
    \/ ProcessChunk
    \/ ProcessFails
    \/ ProcessEnd
    \/ Cancel

\* one call of process_message on an agent that is ready or not
SpecProcess == InitProcess /\ [][NextProcess]_vars

----------------------------------------------------------------------------
(* Properties of the retry wrappers *)

\* the text says "retry_delay { seconds: tok }"
SaysDelay(text, tok) ==
    \E i \in DOMAIN text :
        /\ i + 3 <= Len(text)
        /\ text[i] = "retry_delay"
        /\ text[i + 1] = "{"
        /\ text[i + 2] = "seconds:"
        /\ text[i + 3] = tok

RateLimited(x) == HasRateLimitSignature(x.text)

\* C1: with max_retries >= 1 and an operation that fails on every attempt,
\* the wrapper invokes the operation exactly max_retries times, lets nothing
\* out before the max_retries-th failure and then raises the error of the
\* last attempt; it returns only when an attempt succeeded.
C1_ExhaustedRaisesLast ==
    /\ (~cancelled /\ Len(errors) < max_retries) => propagated = <<>>
    /\ (~cancelled /\ pc = "raised") =>
          /\ max_retries >= 1
          /\ calls = max_retries
          /\ Len(errors) = max_retries
          /\ propagated = <<errors[max_retries]>>
    /\ (max_retries >= 1 /\ pc = "returned") =>
          /\ Len(errors) < calls
          /\ propagated = <<>>

C1_Witness ==
    /\ variant = "call"
    /\ Len(errors) = 3
    /\ pc = "raised"
    /\ ~cancelled
    /\ max_retries = 3
    /\ RateLimited(errors[1])
    /\ ~RateLimited(errors[2])
    /\ RateLimited(errors[3])
    /\ errors[3] # errors[1]

\* every attempt failed with a rate-limit error saying "retry_delay { seconds: 5 }"
AllFailedRateLimited5 ==
    /\ variant = "call"
    /\ pc = "raised"
    /\ ~cancelled
    /\ \A i \in DOMAIN errors :
          RateLimited(errors[i]) /\ SaysDelay(errors[i].text, "5")

\* C2 as stated: with max_retries = 2 and every attempt failing with a
\* rate-limit error saying "retry_delay { seconds: 5 }", the wrapper raises
\* the captured error after sleeping exactly once.
C2_SleepsOnce ==
    (max_retries = 2 /\ AllFailedRateLimited5) =>
        /\ Len(sleeps) = 1
        /\ propagated = <<errors[2]>>

\* C2 amended: in that case the wrapper sleeps 5 seconds after each of the two
\* failures, the final one included, and then raises the captured error.
C2_SleepsTwice ==
    (max_retries = 2 /\ AllFailedRateLimited5) =>
        /\ calls = 2
        /\ sleeps = <<5, 5>>
        /\ propagated = <<errors[2]>>

C2_Witness == max_retries = 2 /\ AllFailedRateLimited5 /\ Len(errors) = 2

\* C3: when the operation fails k < max_retries times with a rate-limit error
\* saying "retry_delay { seconds: N }" and then succeeds, the wrapper sleeps
\* exactly k times, N seconds each, and returns the value of the (k+1)-th call.
C3_SleepsNThenReturns ==
    \A tok \in DigitTokens :
        ( /\ variant = "call"
          /\ pc = "returned"
          /\ result \in Values
          /\ \A i \in DOMAIN errors :
                RateLimited(errors[i]) /\ SaysDelay(errors[i].text, tok) )
        => /\ calls = Len(errors) + 1
           /\ sleeps = [i \in 1..Len(errors) |-> IntValue(tok)]

\* C4: after a rate-limit failure the wrapper sleeps the extracted N seconds
\* (N = 0 included) when the text gives one, else the base delay.
C4_SleepsExtractedOrBase ==
    \A i \in DOMAIN sleeps :
        RateLimited(errors[i]) =>
            IF \E tok \in DigitTokens : SaysDelay(errors[i].text, tok)
            THEN \E tok \in DigitTokens :
                    /\ SaysDelay(errors[i].text, tok)
                    /\ sleeps[i] = IntValue(tok)
            ELSE sleeps[i] = delay

\* the i-th failure has gone through the except clause
Handled(i) == i < Len(errors) \/ pc # "except"

\* C5: after a failure without rate-limit signature the wrapper sleeps the
\* base delay and retries when attempts remain; on the last attempt it raises
\* the error at once, with no sleep and no further call.
C5_PlainFailure ==
    \A i \in DOMAIN errors :
        (~RateLimited(errors[i]) /\ Handled(i)) =>
            IF i < max_retries
            THEN /\ Len(sleeps) >= i
                 /\ sleeps[i] = delay
                 /\ (i = Len(errors) /\ pc \in {"raised", "returned", "tail"})
                       => (cancelled \/ calls > i)
            ELSE /\ pc = "raised"
                 /\ propagated = <<errors[i]>>
                 /\ Len(sleeps) = i - 1
                 /\ calls = i

C5_Witness ==
    /\ variant = "call"
    /\ Len(errors) = 2
    /\ pc = "raised"
    /\ ~cancelled
    /\ max_retries = 2
    /\ ~RateLimited(errors[1])
    /\ ~RateLimited(errors[2])
    /\ sleeps = <<delay>>

\* C6: a rate-limit error is raised to the caller only after the sleep that
\* followed it: on the last attempt the wrapper sleeps the extracted (or base)
\* interval and then raises the captured error.
C6_RateLimitSleepsBeforeRaise ==
    (propagated # <<>> /\ IsException(propagated[1]) /\ RateLimited(propagated[1])) =>
        /\ Len(errors) = max_retries
        /\ propagated[1] = errors[max_retries]
        /\ Len(sleeps) = max_retries
        /\ \/ sleeps[max_retries] = delay
           \/ \E tok \in DigitTokens :
                 /\ SaysDelay(errors[max_retries].text, tok)
                 /\ sleeps[max_retries] = IntValue(tok)

C6_Witness ==
    /\ variant = "call"
    /\ Len(errors) = 2
    /\ pc = "raised"
    /\ max_retries = 2
    /\ ~RateLimited(errors[1])
    /\ RateLimited(errors[2])
    /\ propagated = <<errors[2]>>
    /\ sleeps = <<delay, 5>>

\* when the attempts are exhausted the last error leaves the streaming
\* wrapper, once
RaisedLastOnce ==
    /\ Len(propagated) <= 1
    /\ (variant = "gen" /\ pc = "raised" /\ ~cancelled) =>
          /\ Len(errors) = max_retries
          /\ propagated = <<errors[max_retries]>>

\* C7 as stated: the streaming wrapper raises the last error exactly once
\* when the attempts are exhausted, and an element a failed attempt yielded
\* (the idx-th of the operation's sequence) is not yielded again by a later
\* attempt.
C7_NoReYield ==
    /\ RaisedLastOnce
    /\ \A i, j \in DOMAIN out :
          out[i].inv < out[j].inv => out[i].idx # out[j].idx

\* C7 amended: the last error is raised exactly once when the attempts are
\* exhausted, and no element is yielded twice within one attempt; a retry
\* yields the operation's sequence again from its first element, so what a
\* failed attempt yielded is yielded again.
C7_OncePerAttempt ==
    /\ RaisedLastOnce
    /\ \A i, j \in DOMAIN out : out[i] = out[j] => i = j
    /\ \A j \in DOMAIN out :
          \E i \in 1..j : out[i] = Item(out[j].inv, 1)

C7_Witness ==
    /\ variant = "gen"
    /\ pc = "raised"
    /\ ~cancelled
    /\ max_retries = 2
    /\ out = <<Item(1, 1), Item(1, 2), Item(2, 1)>>

\* C8: every attempt of the streaming wrapper invokes the operation anew and
\* yields that invocation's elements from the first one on; the generator of
\* a failed attempt is never gone on with.
C8_RestartFromTop ==
    variant = "gen" =>
        /\ pc \in {"iter", "except", "sleep"} => calls = attempt + 1
        /\ \A j \in DOMAIN out :
              IF j = 1 \/ out[j - 1].inv # out[j].inv
              THEN /\ out[j].idx = 1
                   /\ j > 1 => out[j - 1].inv < out[j].inv
              ELSE out[j].idx = out[j - 1].idx + 1

C8_Witness ==
    /\ variant = "gen"
    /\ pc = "iter"
    /\ attempt = 2
    /\ out = <<Item(1, 1), Item(1, 2), Item(3, 1)>>

\* the elements the calls-th invocation produced, in production order
Produced == [k \in 1..gen_pos |-> Item(calls, k)]

\* C9: when an attempt of the streaming wrapper yields all its elements and
\* ends without error, the wrapper ends: the attempt's elements were yielded
\* in production order, there is no attempt and no sleep after it, and no
\* error is raised whatever failed before.
C9_EndsOnExhaustion ==
    (variant = "gen" /\ pc = "returned" /\ calls >= 1) =>
        /\ Len(out) >= gen_pos
        /\ SubSeq(out, Len(out) - gen_pos + 1, Len(out)) = Produced
        /\ calls = attempt + 1
        /\ Len(errors) = calls - 1
        /\ Len(sleeps) = calls - 1
        /\ propagated = <<>>

C9_Witness ==
    /\ variant = "gen"
    /\ pc = "returned"
    /\ Len(errors) = 2
    /\ calls = 3
    /\ gen_pos = 2
    /\ Len(out) > 2

\* C10: a cancellation, arriving while the wrapper sleeps or awaits the
\* operation, leaves the wrapper at once as CancelledError: it is not
\* captured as a failure, and no call and no sleep follows it.
C10_CancelPropagates ==
    [][cancelled' =>
          /\ pc' = "raised"
          /\ propagated' = <<CancelledError>>
          /\ last_exception' = last_exception
          /\ last_exception' # CancelledError
          /\ errors' = errors
          /\ calls' = calls
          /\ sleeps' = sleeps
          /\ attempt' = attempt]_retryVars

C10_Witness ==
    /\ cancelled
    /\ pc = "raised"
    /\ calls = Len(errors) + 1
    /\ Len(sleeps) >= 1

----------------------------------------------------------------------------
(* Properties of the intent analyzer *)

\* analyze_intent was the last method called
Analyzed == op.name = "analyze"

\* the input of that call as line 66 normalizes it
UserInput == Normalize(op.input)

\* C11 as stated: after any sequence of update, clear and analyze calls the
\* context memory is either empty or holds all four of last_intent,
\* last_params, last_suggestions and last_response.  Violated: update writes
\* three of the keys and nothing writes last_suggestions.
C11_EmptyOrFull ==
    \/ context_memory = EmptyContext
    \/ \A f \in DOMAIN context_memory : context_memory[f] # <<>>

\* C12 as stated: an input of at most two words that contains the rename
\* word, analyzed while last_intent is delete_file, gives move_file with the
\* remembered target and the rename_to_backup action.  Violated by the bare
\* rename word: line 149 returns before the rename rule of line 152.
C12_RenameWordResolves ==
    ( /\ Analyzed
      /\ WordCount(UserInput) <= 2
      /\ AnyIn(RenameDirective, UserInput)
      /\ CtxIntent(context_memory) = "delete_file" )
    => /\ intent_result.intent = "move_file"
       /\ intent_result.params =
             RenameToBackup(Get(CtxParams(context_memory), "target")).params

\* the delete keyword "udali" of line 121
DeleteWord == <<"U", "D", "A", "L", "I">>

\* C13 as stated: an input that contains the delete keyword and matches no
\* pattern, analyzed while no delete context is pending, gives delete_file
\* with target None.  Violated by the bare keyword: it contains the
\* context keyword "da" and is taken for a context reference.
C13_BareDeleteKeyword ==
    ( /\ Analyzed
      /\ In(DeleteWord, UserInput)
      /\ Classified[UserInput].consulted = <<"context", "patterns", "fallback">>
      /\ CtxIntent(context_memory) # "delete_file" )
    => /\ intent_result.intent = "delete_file"
       /\ Get(intent_result.params, "target") = None

\* the context memory holds a delete_file turn with a target and suggestions
DeletePending ==
    /\ CtxIntent(context_memory) = "delete_file"
    /\ "target" \in DOMAIN CtxParams(context_memory)
    /\ CtxSuggestions(context_memory) # <<>>

\* C14: with last_intent delete_file, last_params {target: T} and non-empty
\* last_suggestions, "1" gives move_file / rename_to_backup /
\* rename_for_deletion, "2" gives move_file / move_to_delete_folder /
\* move_for_deletion and "3" gives write_file with content '' and
\* clear_content, each with target T.
C14_NumberedOptions ==
    (Analyzed /\ DeletePending)
    => LET T == CtxParams(context_memory).target
       IN  /\ UserInput = <<"1">> =>
                /\ intent_result.intent = "move_file"
                /\ intent_result.params =
                      [target |-> T, action |-> Sym("rename_to_backup"),
                       context_action |-> Sym("rename_for_deletion")]
           /\ UserInput = <<"2">> =>
                /\ intent_result.intent = "move_file"
                /\ intent_result.params =
                      [target |-> T, action |-> Sym("move_to_delete_folder"),
                       context_action |-> Sym("move_for_deletion")]
           /\ UserInput = <<"3">> =>
                /\ intent_result.intent = "write_file"
                /\ intent_result.params =
                      [target |-> T, content |-> <<>>,
                       context_action |-> Sym("clear_content")]

\* "2" was analyzed with a pending delete of a.txt and gave the move action
C14_Witness ==
    /\ Analyzed
    /\ DeletePending
    /\ UserInput = <<"2">>
    /\ CtxParams(context_memory).target = <<"a", ".", "t", "x", "t">>
    /\ intent_result.intent = "move_file"
    /\ intent_result.params.action = Sym("move_to_delete_folder")

\* C15: for a numeric input "1".."5", if last_intent is not delete_file, or
\* last_suggestions is empty or absent, or the input is "4" or "5", the
\* result is the intent general and no move_file or write_file action.
C15_NoOptionFallsThrough ==
    ( /\ Analyzed
      /\ IsNumericToken(UserInput)
      /\ \/ CtxIntent(context_memory) # "delete_file"
         \/ CtxSuggestions(context_memory) = <<>>
         \/ UserInput \in {<<"4">>, <<"5">>} )
    => /\ intent_result.intent = "general"
       /\ intent_result.intent \notin {"move_file", "write_file"}

\* "1" was analyzed with a delete_file turn but no suggestions stored, and
\* "4" with suggestions stored
C15_Witness ==
    /\ Analyzed
    /\ CtxIntent(context_memory) = "delete_file"
    /\ \/ UserInput = <<"1">> /\ CtxSuggestions(context_memory) = <<>>
       \/ UserInput = <<"4">> /\ CtxSuggestions(context_memory) # <<>>
    /\ intent_result.intent = "general"

\* C16: analyze_intent asks the context rule first.  When the input is a
\* context reference the result is the one of _handle_context_reference and
\* neither a pattern nor a fallback keyword is consulted; otherwise the
\* result is the one of the patterns and fallback keywords, consulted after
\* the context rule.
C16_ContextFirst ==
    Analyzed =>
       IF IsContextReference(UserInput, context_memory)
       THEN /\ intent_result.consulted = <<"context">>
            /\ [intent |-> intent_result.intent,
                params |-> intent_result.params]
                  = HandleContextReference(UserInput, context_memory)
       ELSE /\ intent_result = Classified[UserInput]
            /\ Head(intent_result.consulted) = "context"

\* an input the patterns or keywords would classify was taken by the
\* context rule
C16_Witness ==
    /\ Analyzed
    /\ IsContextReference(UserInput, context_memory)
    /\ Classified[UserInput].intent # "general"
    /\ intent_result.consulted = <<"context">>
    /\ intent_result.intent = "general"

\* C17: the rename word analyzed while last_intent is absent is not a
\* context reference: the result is the classifier's, it carries no
\* context_reference marker and is no derived move_file or write_file.
C17_RenameWithoutContext ==
    ( /\ Analyzed
      /\ WordCount(UserInput) <= 2
      /\ AnyIn(RenameDirective, UserInput)
      /\ ~AnyIn(context_keywords, UserInput)
      /\ context_memory.last_intent = <<>> )
    => /\ intent_result = Classified[UserInput]
       /\ "context_reference" \notin DOMAIN intent_result.params
       /\ intent_result.intent \notin {"move_file", "write_file"}

\* the bare rename word was analyzed with no last_intent
C17_Witness ==
    /\ Analyzed
    /\ UserInput = RenameDirective[1]
    /\ context_memory.last_intent = <<>>
    /\ intent_result.intent = "general"
    /\ intent_result.consulted # <<"context">>

\* "da", "davaj", "sdelaj eto", "vypolni"
AffirmationInputs ==
    { <<"D", "A">>, <<"D", "A", "V", "A", "J">>,
      <<"S", "D", "E", "L", "A", "J", " ", "EH", "T", "O">>,
      <<"V", "Y", "P", "O", "L", "N", "I">> }

\* C18 as stated: for an affirmation, if last_intent and last_params are both
\* present the result is exactly (last_intent, last_params); if either is
\* absent the result is general with the context_reference marker.
\* Violated: a last_params that is present and {} is not replayed.
C18_AffirmationReplays ==
    (Analyzed /\ UserInput \in AffirmationInputs)
    => IF context_memory.last_intent # <<>> /\ context_memory.last_params # <<>>
       THEN /\ intent_result.intent = context_memory.last_intent[1]
            /\ intent_result.params = context_memory.last_params[1]
       ELSE /\ intent_result.intent = "general"
            /\ intent_result.params =
                  [context_reference |-> True, original_input |-> UserInput]

\* one of the three rules of _handle_context_reference gives the result
Resolves(u, ctx) ==
    \/ /\ IsNumericToken(u)
       /\ u \in {<<"1">>, <<"2">>, <<"3">>}
       /\ CtxIntent(ctx) = "delete_file"
       /\ CtxSuggestions(ctx) # <<>>
    \/ /\ AnyIn(RenameWords, u)
       /\ CtxIntent(ctx) = "delete_file"
    \/ /\ AnyIn(AffirmationWords, u)
       /\ CtxIntent(ctx) # "None"
       /\ CtxParams(ctx) # EmptyDict

\* C19: a context reference that none of the numeric, rename and
\* affirmation rules resolves gives general with exactly the parameters
\* {context_reference: True, original_input: the normalized input}.
C19_UnresolvedReferenceMarked ==
    ( /\ Analyzed
      /\ IsContextReference(UserInput, context_memory)
      /\ ~Resolves(UserInput, context_memory) )
    => /\ intent_result.intent = "general"
       /\ intent_result.params =
             [context_reference |-> True, original_input |-> UserInput]

\* " Da " was analyzed with the empty context memory and came back as "da"
C19_Witness ==
    /\ Analyzed
    /\ op.input = <<" ", "^D", "A", " ">>
    /\ context_memory = EmptyContext
    /\ intent_result.intent = "general"
    /\ intent_result.params.original_input = <<"D", "A">>

\* C20: after update_context_memory(i, p, r) the context memory holds
\* exactly the turn (i, p, r) and nothing of an earlier turn, after
\* clear_context_memory() it is empty, and it never holds more than one
\* value per field.
C20_OneTurn ==
    /\ op.name = "update" =>
          context_memory = [last_intent |-> <<op.intent>>,
                            last_params |-> <<op.params>>,
                            last_suggestions |-> <<>>,
                            last_response |-> <<op.response>>]
    /\ op.name = "clear" => context_memory = EmptyContext
    /\ \A f \in DOMAIN context_memory : Len(context_memory[f]) <= 1

\* a turn with empty parameters and no response was recorded
C20_Witness ==
    /\ op.name = "update"
    /\ op.intent = "general"
    /\ op.params = EmptyDict
    /\ op.response = None
    /\ context_memory.last_params = <<EmptyDict>>
    /\ context_memory.last_response = <<None>>

\* C21: analyze_intent never changes the context memory: whatever the input
\* and the context memory, the memory after the call is the memory before
\* it.
C21_AnalyzeKeepsContext ==
    [][op'.name = "analyze" => context_memory' = context_memory]_vars

\* an affirmation was analyzed and replayed the remembered turn, which is
\* still in the context memory
C21_Witness ==
    /\ Analyzed
    /\ UserInput \in AffirmationInputs
    /\ context_memory.last_intent = <<"read_file">>
    /\ context_memory.last_params # <<>>
    /\ intent_result.intent = "read_file"
    /\ intent_result.params = context_memory.last_params[1]

\* C22 as stated: nothing the caller does to the value get_context_memory
\* returned changes the engine's context memory.  Violated: the copy is
\* shallow, so writing into the returned last_params writes into the
\* engine's last_params.
C22_CopyIsDetached ==
    [][op'.name \in {"caller_set", "caller_edit"}
          => context_memory' = context_memory]_vars

\* the patterns of the table that re.search finds in each normalized input
Matching ==
    [u \in DOMAIN Classified |->
        { k \in DOMAIN intent_patterns : Search(intent_patterns[k].re, u) # <<>> }]

\* the intents whose patterns match the analyzed input
MatchingIntents == { intent_patterns[k].intent : k \in Matching[UserInput] }

\* analyze_intent was called with an input that is no context reference
Classifying == Analyzed /\ ~IsContextReference(UserInput, context_memory)

\* C23: the classifier returns the intent of the first pattern, in the
\* order of the table, that matches the normalized input; no intent declared
\* later is returned, however many later patterns match.
C23_FirstPatternWins ==
    (Classifying /\ Matching[UserInput] # {})
    => \E j \in Matching[UserInput] :
          /\ \A k \in Matching[UserInput] : j <= k
          /\ intent_result.intent = intent_patterns[j].intent

\* "najdi v internete python" matches a search and a web_search pattern and
\* came back as search, the one declared first
C23_Witness ==
    /\ Classifying
    /\ MatchingIntents = {"search", "web_search"}
    /\ intent_result.intent = "search"

\* C24: an input that matches a refactor_file pattern and a read_file
\* pattern is classified refactor_file, never read_file.
C24_RefactorBeforeRead ==
    (Classifying /\ {"refactor_file", "read_file"} \subseteq MatchingIntents)
    => intent_result.intent = "refactor_file"

\* "fix read me in file a.txt" matches both and came back as refactor_file
C24_Witness ==
    /\ Classifying
    /\ {"refactor_file", "read_file"} \subseteq MatchingIntents
    /\ intent_result.intent = "refactor_file"
    /\ intent_result.params = [target |-> <<"a", ".", "t", "x", "t">>]

\* "najdi v internete "
WebSearchPrefix ==
    <<"N", "A", "J", "D", "I", " ", "V", " ",
      "I", "N", "T", "E", "R", "N", "E", "T", "E", " ">>

\* C25 as stated: "najdi v internete <query>" is classified web_search with
\* the query as target.  Violated: the search pattern stands before the
\* web_search pattern in the table and matches first.
C25_WebSearchRequest ==
    ( /\ Analyzed
      /\ Len(UserInput) > Len(WebSearchPrefix)
      /\ SubSeq(UserInput, 1, Len(WebSearchPrefix)) = WebSearchPrefix )
    => /\ intent_result.intent = "web_search"
       /\ intent_result.params =
             [target |-> SubSeq(UserInput, Len(WebSearchPrefix) + 1,
                                Len(UserInput))]

\* every intent analyze_intent can name
KnownIntents ==
    { intent_patterns[k].intent : k \in DOMAIN intent_patterns }
       \cup { keyword_patterns[k].intent : k \in DOMAIN keyword_patterns }
       \cup RecordIntents \cup {"general", "move_file", "write_file"}

\* C26: analyze_intent raises nothing, whatever the input (the empty and
\* the blank string included) and whatever context memory update and clear
\* have left: it returns an intent, and for an input without any signal the
\* intent general.
C26_NeverRaises ==
    Analyzed =>
       /\ intent_result.intent \in KnownIntents
       /\ UserInput = <<>> =>
             /\ intent_result.intent = "general"
             /\ intent_result.params = EmptyDict

\* the blank input "  " was analyzed with a delete_file turn remembered
C26_Witness ==
    /\ Analyzed
    /\ op.input = <<" ", " ">>
    /\ context_memory.last_intent = <<"delete_file">>
    /\ intent_result.intent = "general"

\* the triples of keyword_patterns that match the analyzed input: a primary
\* word is in it, and a secondary word too unless the triple has none
MatchingTriples ==
    { k \in DOMAIN keyword_patterns :
         /\ \E i \in DOMAIN keyword_patterns[k].primary :
               In(keyword_patterns[k].primary[i], UserInput)
         /\ \/ keyword_patterns[k].secondary = <<>>
            \/ \E i \in DOMAIN keyword_patterns[k].secondary :
                  In(keyword_patterns[k].secondary[i], UserInput) }

\* C27: when no pattern matches, the first keyword triple in declared order
\* that matches gives the intent, with target None; when no triple matches
\* either, the result is general with empty parameters.
C27_FallbackOrder ==
    (Classifying /\ Matching[UserInput] = {})
    => IF MatchingTriples = {}
       THEN /\ intent_result.intent = "general"
            /\ intent_result.params = EmptyDict
       ELSE /\ \E j \in MatchingTriples :
                  /\ \A k \in MatchingTriples : j <= k
                  /\ intent_result.intent = keyword_patterns[j].intent
            /\ intent_result.params = [target |-> None]

\* "show,remove" matches no pattern and the read_file and delete_file
\* triples, and came back as read_file
C27_Witness ==
    /\ Classifying
    /\ Matching[UserInput] = {}
    /\ Cardinality(MatchingTriples) = 2
    /\ intent_result.intent = "read_file"
    /\ intent_result.params = [target |-> None]

FillerWords == << <<"F", "A", "J", "L">>, <<"F", "A", "J", "L", "A">>, <<"f", "i", "l", "e">> >>

\* the string t is a filler word or begins with one and a blank
HasLeadingFiller(t) ==
    \E i \in DOMAIN FillerWords :
       LET w == FillerWords[i]
       IN  \/ t = w
           \/ /\ Len(t) > Len(w)
              /\ SubSeq(t, 1, Len(w)) = w
              /\ t[Len(w) + 1] = " "

\* C29 as stated: "prochitaj fajl notes.txt" is classified read_file with
\* target "notes.txt", and no extracted target has a filler word of the
\* fajl / file family at its front.  Violated by "read file a.txt", whose
\* target is "file".
C29_NoLeadingFiller ==
    Classifying =>
       /\ UserInput = <<"P", "R", "O", "CH", "I", "T", "A", "J", " ", "F", "A", "J", "L", " ", "n", "o", "t", "e", "s", ".", "t", "x", "t">> =>
             /\ intent_result.intent = "read_file"
             /\ intent_result.params = [target |-> <<"n", "o", "t", "e", "s", ".", "t", "x", "t">>]
       /\ ( /\ "target" \in DOMAIN intent_result.params
            /\ intent_result.params.target # None )
          => ~HasLeadingFiller(intent_result.params.target)

\* C30: the retry wrappers always terminate: when every invocation and every
\* sleep comes to an end, the wrapper eventually returns or raises, and it
\* never makes more than max_retries invocations or more than max_retries
\* sleeps.
C30_Terminates ==
    /\ <>(pc \in {"returned", "raised"})
    /\ [](calls <= max_retries /\ Len(sleeps) <= max_retries)

\* every attempt was made and failed, a sleep followed each one, and the
\* wrapper raised
C30_Witness ==
    /\ pc = "raised"
    /\ ~cancelled
    /\ max_retries >= 2
    /\ calls = max_retries
    /\ Len(sleeps) = max_retries

\* C31 as stated: the wrapped operation is invoked at least once whatever
\* max_retries is, 0 included: the single-call wrapper never returns None
\* and neither wrapper ends without an invocation.  Violated for
\* max_retries = 0: the loop body never runs and the wrapper falls off its
\* end.
C31_AttemptedAtLeastOnce ==
    pc \in {"returned", "raised"} =>
       /\ calls >= 1
       /\ (variant = "call" /\ pc = "returned") => result # "None"

\* the text carries "retry_delay { seconds: N }" and neither "429" nor
\* "ResourceExhausted"
HintOnly(text) ==
    /\ \E tok \in DigitTokens : SaysDelay(text, tok)
    /\ ~Contains(text, "429")
    /\ ~Contains(text, "ResourceExhausted")

\* C32: a failure whose text carries a retry_delay hint but no rate-limit
\* signature is handled as any other failure: the wrapper sleeps the base
\* delay, never the N of the hint, when attempts remain, and raises the
\* error at once on the last attempt.
C32_HintNeedsSignature ==
    \A i \in DOMAIN errors :
        (HintOnly(errors[i].text) /\ Handled(i)) =>
            IF i < max_retries
            THEN /\ Len(sleeps) >= i
                 /\ sleeps[i] = delay
                 /\ \A tok \in DigitTokens :
                       SaysDelay(errors[i].text, tok) => sleeps[i] # IntValue(tok)
            ELSE /\ pc = "raised"
                 /\ propagated = <<errors[i]>>
                 /\ Len(sleeps) = i - 1
                 /\ calls = i

\* two attempts failed with a hint and no signature: one base-delay sleep,
\* then the second error was raised
C32_Witness ==
    /\ Len(errors) = 2
    /\ pc = "raised"
    /\ ~cancelled
    /\ max_retries = 2
    /\ HintOnly(errors[1].text)
    /\ HintOnly(errors[2].text)
    /\ sleeps = <<delay>>
    /\ propagated = <<errors[2]>>

\* C34: whatever update_context_memory, clear_context_memory and
\* analyze_intent are called after construction, last_suggestions is never
\* stored; so "1", "2" and "3" never give a derived move_file or write_file
\* action and always give general with the context_reference marker.
C34_NoSuggestionsStored ==
    /\ CtxSuggestions(context_memory) = <<>>
    /\ (Analyzed /\ UserInput \in {<<"1">>, <<"2">>, <<"3">>}) =>
          /\ intent_result.intent = "general"
          /\ intent_result.params =
                [context_reference |-> True, original_input |-> UserInput]

\* "1" was analyzed after a delete_file turn for a.txt was recorded, and
\* gave general
C34_Witness ==
    /\ Analyzed
    /\ UserInput = <<"1">>
    /\ context_memory.last_intent = <<"delete_file">>
    /\ context_memory.last_params = <<[target |-> <<"a", ".", "t", "x", "t">>]>>
    /\ intent_result.intent = "general"

\* C35 as stated: a two-word command of a pattern verb and a target without
\* a dot is classified by the patterns and is no context reference; with
\* the empty context memory "udali temp" gives delete_file with target
\* "temp".  Violated: "udali" contains the context keyword "da".
C35_TwoWordCommand ==
    ( /\ Analyzed
      /\ WordCount(UserInput) = 2
      /\ ~In(<<".">>, UserInput)
      /\ Matching[UserInput] # {} )
    => /\ intent_result.intent = Classified[UserInput].intent
       /\ intent_result.params = Classified[UserInput].params
       /\ "context_reference" \notin DOMAIN intent_result.params
       /\ ( /\ context_memory = EmptyContext
            /\ UserInput = DeleteWord \o <<" ", "t", "e", "m", "p">> )
          => /\ intent_result.intent = "delete_file"
             /\ intent_result.params = [target |-> <<"t", "e", "m", "p">>]

\* C36 as stated: the params an affirmation replay returned are independent
\* of the stored turn; when the caller rewrites their target to an absolute
\* path, last_params stays as it was.  Violated: the replay returns the
\* stored dict itself.
C36_ReplayIsDetached ==
    [][op'.name = "excel" => context_memory'.last_params = context_memory.last_params]_vars

\* agent.py:51-54: the is_ready property
IsReady == initialized /\ agent # 0

\* a call of initialize ends in this step
InitializeEnds ==
    /\ init_pc' = "idle"
    /\ init_calls' # init_calls \/ init_pc = "mcp"

C37_Step ==
    /\ initialized' => agent' # 0
    /\ IsReady' <=> initialized'
    /\ (InitializeEnds /\ init_failed' # "none") =>
          /\ init_result' = "False"
          /\ ~initialized'
    /\ initialized =>
          /\ initialized'
          /\ agent' = agent
          /\ discoveries' = discoveries
          /\ agents_created' = agents_created
          /\ InitializeEnds => init_result' = "True"

\* C37: over any sequence of initialize calls whose steps (config
\* validation, tool discovery under retry, model and agent creation) may
\* fail: _initialized is true only if agent is set, so is_ready equals
\* _initialized; an initialize in which a step failed returns False, does
\* not raise, and leaves _initialized false; once _initialized is true,
\* every later initialize returns True, runs no tool discovery and leaves
\* the agent as it is.
C37_InitializeContract == [][C37_Step]_vars

\* the second call initialized the agent after a failed discovery attempt
\* was retried, and the third call returned True at once
C37_Witness ==
    /\ init_calls = 3
    /\ init_pc = "idle"
    /\ initialized
    /\ init_result = "True"
    /\ agent = 1
    /\ agents_created = 1
    /\ errors # <<>>
    /\ calls = 2
    /\ discoveries >= 3

\* C33: no Exception raised by intent analysis or by the model stream
\* reaches the retry wrapper of process_message: the wrapper's except
\* clause, sleeps and tail are never entered, func is invoked once per call,
\* nothing but the caller's cancellation leaves the wrapper, and a failure
\* gives exactly one error chunk, which is the last element of the stream.
C33_FailuresBecomeErrorChunk ==
    (variant = "gen" /\ pc # "idle") =>
        /\ pc \in {"for", "iter", "returned", "raised"}
        /\ e = NoException
        /\ last_exception = NoException
        /\ sleeps = <<>>
        /\ calls <= 1
        /\ propagated \in {<<>>, <<CancelledError>>}
        /\ pc = "raised" => cancelled
        /\ pc = "returned" => calls = 1
        /\ \A i \in DOMAIN out : IsErrorChunk(out[i]) => i = Len(out)
        /\ errors # <<>> =>
              /\ Len(errors) = 1
              /\ out # <<>>
              /\ out[Len(out)].error =
                    << IF IsResourceExhausted(errors[1])
                       THEN FriendlyError(errors[1])
                       ELSE FinalErrorMsg(errors[1]) >>
              /\ pc = "iter" => body = "end"

\* the stream gave one chunk and then failed with a rate-limit error that
\* says 5 seconds; the call ended after the error chunk, one attempt, no
\* sleep
C33_Witness ==
    /\ variant = "gen"
    /\ pc = "returned"
    /\ errors = <<ResourceExhausted(<<"429", "retry_delay", "{", "seconds:", "5", "}">>)>>
    /\ Len(out) = 2
    /\ ~IsErrorChunk(out[1])
    /\ out[2].error = <<[kind |-> "rate_limit", text |-> <<>>, wait |-> <<5>>]>>
    /\ calls = 1
    /\ sleeps = <<>>

====
